---- MODULE Spec2Model ----
(***************************************************************************)
(* A model of the leg-lang interpreter: the lexer (tokenizer.rs), the      *)
(* recursive-descent parser (parser.rs) and the tree-walking evaluator     *)
(* (interp.rs, operators.rs, leg_sdl.rs), driven as main.rs drives them:   *)
(* tokenize, then parse, then interp.                                      *)
(*                                                                         *)
(* Source text is a sequence of one-character strings.  Option<char> is    *)
(* a character or NoChar.  An f64 is modelled by an exact rational         *)
(* [n, d] (d > 0), which is exact for the literals and the operations the  *)
(* model's programs use.                                                   *)
(***************************************************************************)
EXTENDS Integers, Sequences, FiniteSets, TLC

VARIABLES
    src,            \* the script text handed to tokenize
    pc,             \* position of main: "tokenize", "parse", "interp", "evaluate", "done"
    tokens,         \* result of tokenize
    ast,            \* result of parse
    closures,       \* Interp.closures (closure id i is element i+1)
    functions,      \* Interp.functions
    structs,        \* Interp.structs
    frames,         \* Interp.current_frame and its parent_frame chain, current first
    ctl,            \* what the evaluator does next: evaluate a node or return a result
    kont,           \* the pending Rust activations of evaluate_next / evaluate_block
    output,         \* the lines printed by leg_sdl::print
    result          \* what interp returned

vars == <<src, pc, tokens, ast, closures, functions, structs, frames, ctl, kont, output, result>>

(***************************************************************************)
(* Characters                                                              *)
(***************************************************************************)
NoChar == "EOF"

Digits == {"0", "1", "2", "3", "4", "5", "6", "7", "8", "9"}

LowerLetters == {"a", "b", "c", "d", "e", "f", "g", "h", "i", "j", "k", "l", "m",
                 "n", "o", "p", "q", "r", "s", "t", "u", "v", "w", "x", "y", "z"}

UpperLetters == {"A", "B", "C", "D", "E", "F", "G", "H", "I", "J", "K", "L", "M",
                 "N", "O", "P", "Q", "R", "S", "T", "U", "V", "W", "X", "Y", "Z"}

Letters == LowerLetters \cup UpperLetters

(***************************************************************************)
(* tokenizer.rs                                                            *)
(***************************************************************************)
TokenType == {"Alphanumeric", "Numeric", "OpenParenthesis", "CloseParenthesis",
              "OpenBlock", "CloseBlock", "ParameterDivider", "SubElement",
              "StaticAssignment", "VariableAssignment", "Symbol", "StaticString",
              "Comment", "Operator", "EndOfStatement", "Undefined"}

\* Token::null(): the parser's sentinel for "no token yet"
NullToken ==
    [null_value |-> TRUE, text |-> <<>>, token_type |-> "Undefined",
     line_number_from |-> 0, column_number_from |-> 0,
     line_number_to |-> 0, column_number_to |-> 0]

\* Tokenizer::new()
NewTokenizer(target) ==
    [char_stream |-> target, consumed |-> 0, current_char |-> "\n",
     line_number |-> 1, column_number |-> 0, tokens |-> <<>>]

peek_char(t) ==
    IF t.consumed < Len(t.char_stream) THEN t.char_stream[t.consumed + 1] ELSE NoChar

increment_file_info(t) ==
    LET c == peek_char(t) IN
    IF c = NoChar THEN t
    ELSE IF c = "\n"
         THEN [t EXCEPT !.line_number = t.line_number + 1, !.column_number = 0]
         ELSE [t EXCEPT !.column_number = t.column_number + 1]

\* the tokenizer after next_char(); what next_char returns is peek_char before it
next_char(t) ==
    LET t1 == increment_file_info(t) IN
    IF peek_char(t) = NoChar THEN t1
    ELSE [t1 EXCEPT !.consumed = t.consumed + 1, !.current_char = peek_char(t)]

\* add_next_char on the pair <<tokenizer, token>>
add_next_char(t, token) ==
    LET c == peek_char(t) IN
    [t |-> next_char(t),
     token |-> IF c = NoChar THEN token ELSE [token EXCEPT !.text = Append(token.text, c)]]

new_token(t, tp) ==
    [null_value |-> FALSE, text |-> <<t.current_char>>, token_type |-> tp,
     line_number_from |-> t.line_number, column_number_from |-> t.column_number,
     line_number_to |-> t.line_number, column_number_to |-> t.column_number]

save_token(t, token) ==
    [t EXCEPT !.tokens = Append(t.tokens,
        [token EXCEPT !.column_number_to = t.column_number,
                      !.line_number_to = t.line_number])]

save_new_token(t, tp) == save_token(t, new_token(t, tp))

\* the results of the tokenize_* functions: the tokenizer afterwards and Ok(token) or Err
TokOk(t, token) == [ok |-> TRUE, t |-> t, token |-> token, desc |-> ""]
TokErr(t, token, desc) == [ok |-> FALSE, t |-> t, token |-> token, desc |-> desc]

RECURSIVE number_loop(_, _)
number_loop(t, token) ==
    LET c == peek_char(t) IN
    IF c \in Digits \cup {"."}
    THEN LET a == add_next_char(t, token) IN number_loop(a.t, a.token)
    ELSE TokOk(t, token)

tokenize_number(t) == number_loop(t, new_token(t, "Numeric"))

RECURSIVE word_loop(_, _)
word_loop(t, token) ==
    LET c == peek_char(t) IN
    IF c \in Letters \cup {"_"} \cup Digits
    THEN LET a == add_next_char(t, token) IN word_loop(a.t, a.token)
    ELSE TokOk(t, token)

tokenize_word(t) == word_loop(t, new_token(t, "Alphanumeric"))

\* the loop of tokenize_string without the escape arm: the first quote ends the string
RECURSIVE string_loop_unescaped(_, _)
string_loop_unescaped(t, token) ==
    LET c == peek_char(t)
        a == add_next_char(t, token)
    IN  IF c = NoChar
        THEN TokErr(a.t, a.token, "Invalid end of input for \"string\"")
        ELSE IF c = "\""
             THEN TokOk(a.t, a.token)
             ELSE string_loop_unescaped(a.t, a.token)

RECURSIVE string_loop(_, _)
string_loop(t, token) ==
    LET c == peek_char(t)
        a == add_next_char(t, token)
    IN  IF c = NoChar
        THEN TokErr(a.t, a.token, "Invalid end of input for \"string\"")
        ELSE IF c = "\\"
             THEN LET b == add_next_char(a.t, a.token) IN string_loop(b.t, b.token)
             ELSE IF c = "\""
                  THEN TokOk(a.t, a.token)
                  ELSE string_loop(a.t, a.token)

tokenize_string(t) == string_loop(t, new_token(t, "StaticString"))

\* the comment loop taking the newline into the comment
RECURSIVE comment_loop_through_newline(_, _)
comment_loop_through_newline(t, token) ==
    LET c == peek_char(t) IN
    IF c = NoChar
    THEN TokErr(t, token, "Invalid end of input for // comment")
    ELSE LET a == add_next_char(t, token) IN
         IF c = "\n" THEN TokOk(a.t, a.token) ELSE comment_loop_through_newline(a.t, a.token)

RECURSIVE comment_loop(_, _)
comment_loop(t, token) ==
    LET c == peek_char(t) IN
    IF c = NoChar
    THEN TokErr(t, token, "Invalid end of input for // comment")
    ELSE IF c = "\n"
         THEN TokOk(t, token)
         ELSE LET a == add_next_char(t, token) IN comment_loop(a.t, a.token)

tokenize_comment(t) == comment_loop(t, new_token(t, "Comment"))

tokenize_static_assignment(t) ==
    LET a == add_next_char(t, new_token(t, "StaticAssignment")) IN TokOk(a.t, a.token)

tokenize_variable_assignment(t) ==
    LET a == add_next_char(t, new_token(t, "VariableAssignment")) IN TokOk(a.t, a.token)

tokenize_symbol(t) == TokOk(t, new_token(t, "Symbol"))

tokenize_operator(t) == TokOk(t, new_token(t, "Operator"))

\* the whitespace arm without the tab
WhitespaceWithoutTab == {" ", "\n", "\r"}

\* the characters tokenize_using_state consumes without a token
Whitespace == {" ", "\n", "\r", "\t"}

\* one match arm that builds a token and saves it (the ? on its result included)
SaveResult(r) ==
    IF r.ok THEN [ok |-> TRUE, t |-> save_token(r.t, r.token), token |-> r.token, desc |-> ""]
    ELSE r

\* the body of the while loop of tokenize_using_state, for the character c that
\* next_char just returned (t is the tokenizer after that next_char)
tokenize_char(t, c) ==
    LET p == peek_char(t) IN
    CASE c \in Digits -> SaveResult(tokenize_number(t))
      [] c \in Letters \cup {"_"} -> SaveResult(tokenize_word(t))
      [] c = "\"" -> SaveResult(tokenize_string(t))
      [] c = "(" -> SaveResult(TokOk(t, new_token(t, "OpenParenthesis")))
      [] c = ")" -> SaveResult(TokOk(t, new_token(t, "CloseParenthesis")))
      [] c \in {"+", "-", "*", "^", "%"} -> SaveResult(tokenize_operator(t))
      [] c = "{" -> SaveResult(TokOk(t, new_token(t, "OpenBlock")))
      [] c = "}" -> SaveResult(TokOk(t, new_token(t, "CloseBlock")))
      [] c = "/" ->
            IF p = NoChar
            THEN TokErr(t, new_token(t, "Undefined"), "Invalid end of input after /")
            ELSE IF p = "/" THEN SaveResult(tokenize_comment(t))
                 ELSE SaveResult(tokenize_operator(t))
      [] c = "=" ->
            IF p = NoChar
            THEN TokErr(t, new_token(t, "Undefined"), "Invalid end of input after =")
            ELSE SaveResult(tokenize_variable_assignment(t))
      [] c = ":" ->
            IF p = NoChar
            THEN TokErr(t, new_token(t, "Undefined"), "Invalid end of input after :")
            ELSE IF p = ":" THEN SaveResult(tokenize_static_assignment(t))
            ELSE IF p = "=" THEN SaveResult(tokenize_variable_assignment(t))
            ELSE IF p \in Letters THEN SaveResult(tokenize_symbol(t))
            ELSE TokErr(t, new_token(t, "Undefined"), "Invalid character preceding (:): " \o p)
      [] c = ";" -> TokOk(save_new_token(t, "EndOfStatement"), NullToken)
      [] c = "," -> TokOk(save_new_token(t, "ParameterDivider"), NullToken)
      [] c = "." -> TokOk(save_new_token(t, "SubElement"), NullToken)
      [] c \in Whitespace -> TokOk(t, NullToken)
      [] OTHER -> TokErr(t, new_token(t, "Undefined"), "Invalid end of input: " \o c)

\* Result<Vec<Token>, TokenizationError>
RECURSIVE tokenize_using_state(_)
tokenize_using_state(t) ==
    LET c == peek_char(t) IN
    IF c = NoChar
    THEN [ok |-> TRUE, tokens |-> t.tokens, token |-> NullToken, desc |-> ""]
    ELSE LET r == tokenize_char(next_char(t), c) IN
         IF r.ok THEN tokenize_using_state(r.t)
         ELSE [ok |-> FALSE, tokens |-> <<>>, token |-> r.token, desc |-> r.desc]

tokenize(string) == tokenize_using_state(NewTokenizer(string))

(***************************************************************************)
(* parser.rs                                                               *)
(***************************************************************************)
\* An f64 as an exact rational in lowest terms
RECURSIVE Gcd(_, _)
Gcd(a, b) == IF b = 0 THEN a ELSE Gcd(b, a % b)

Abs(a) == IF a < 0 THEN 0 - a ELSE a

Rat(n, d) ==
    LET g == Gcd(Abs(n), Abs(d))
        s == IF d < 0 THEN 0 - 1 ELSE 1
    IN  IF g = 0 THEN [n |-> 0, d |-> 0] ELSE [n |-> s * (n \div g), d |-> s * (d \div g)]

DigitSeq == <<"0", "1", "2", "3", "4", "5", "6", "7", "8", "9">>

DigitVal(c) == (CHOOSE i \in 1..10 : DigitSeq[i] = c) - 1

RECURSIVE Pow10(_)
Pow10(k) == IF k = 0 THEN 1 ELSE 10 * Pow10(k - 1)

\* str::parse::<f64>() on the text of a Numeric token (digits and dots, first a digit)
RECURSIVE DecimalDigits(_, _)
DecimalDigits(text, acc) ==
    IF text = <<>> THEN acc
    ELSE DecimalDigits(Tail(text),
                       IF Head(text) = "." THEN acc ELSE 10 * acc + DigitVal(Head(text)))

ParseF64(text) ==
    LET dots == {i \in 1..Len(text) : text[i] = "."} IN
    IF Cardinality(dots) > 1 THEN [ok |-> FALSE, value |-> Rat(0, 1)]
    ELSE LET frac == IF dots = {} THEN 0 ELSE Len(text) - (CHOOSE i \in dots : TRUE)
         IN  [ok |-> TRUE, value |-> Rat(DecimalDigits(text, 0), Pow10(frac))]

\* Result<AstNodeType, ParsingError>, with the parser position afterwards; panic
\* is a failed assert_eq! or unwrap()
POk(node, p) == [ok |-> TRUE, panic |-> FALSE, node |-> node, p |-> p,
                 token |-> NullToken, desc |-> ""]
PErr(token, desc, p) == [ok |-> FALSE, panic |-> FALSE, node |-> [kind |-> "NullValue"], p |-> p,
                         token |-> token, desc |-> desc]
PPanic(p) == [ok |-> FALSE, panic |-> TRUE, node |-> [kind |-> "NullValue"], p |-> p,
              token |-> NullToken, desc |-> "panic"]

\* Parser.current_token when p tokens have been taken from token_stream
current_token(toks, p) == IF p = 0 THEN NullToken ELSE toks[p]

\* the position after next_token(); it returned Some iff p < Len(toks)
next_token(toks, p) == IF p < Len(toks) THEN p + 1 ELSE p

HasNext(toks, p) == p < Len(toks)

\* the type of peek_token(), "None" at the end of the stream
PeekType(toks, p) == IF p < Len(toks) THEN toks[p + 1].token_type ELSE "None"

CurType(toks, p) == current_token(toks, p).token_type

\* AstOperator::from_token
from_token(token) ==
    CASE token.text = <<"+">> -> "Add"
      [] token.text = <<"-">> -> "Sub"
      [] token.text = <<"*">> -> "Mult"
      [] token.text = <<"/">> -> "Div"
      [] token.text = <<"^">> -> "Pow"
      [] token.text = <<"%">> -> "Mod"
      [] OTHER -> "panic"

\* get_operator_precedence with one level for every operator
get_operator_precedence_flat(token) ==
    IF token.token_type = "Operator" /\ from_token(token) # "panic"
    THEN [ok |-> TRUE, value |-> 1]
    ELSE [ok |-> FALSE, value |-> 0]

get_operator_precedence(token) ==
    IF token.token_type = "Operator"
    THEN CASE token.text \in {<<"+">>, <<"-">>} -> [ok |-> TRUE, value |-> 1]
           [] token.text \in {<<"*">>, <<"/">>, <<"%">>} -> [ok |-> TRUE, value |-> 2]
           [] token.text = <<"^">> -> [ok |-> TRUE, value |-> 3]
           [] OTHER -> [ok |-> FALSE, value |-> 0]
    ELSE [ok |-> FALSE, value |-> 0]

parse_number(toks, p) ==
    LET text == current_token(toks, p).text
        n == ParseF64(text)
    IN  IF CurType(toks, p) # "Numeric" THEN PPanic(p)
        ELSE IF n.ok THEN POk([kind |-> "NumberValue", value |-> n.value], p)
        ELSE PErr(current_token(toks, p), "Failed to parse number", p)

parse_string(toks, p) ==
    LET text == current_token(toks, p).text IN
    IF CurType(toks, p) # "StaticString" THEN PPanic(p)
    ELSE POk([kind |-> "StringValue", value |-> SubSeq(text, 2, Len(text) - 1)], p)

parse_variable(toks, p) ==
    IF CurType(toks, p) # "Alphanumeric" THEN PPanic(p)
    ELSE POk([kind |-> "Variable", name |-> current_token(toks, p).text], p)

RECURSIVE parse_partial_expression(_, _), parse_expression(_, _), parse_operator(_, _, _),
          parse_statement(_, _), parse_named(_, _), parse_assignment(_, _),
          parse_static_expression(_, _), parse_function_declaration(_, _),
          function_declaration_loop(_, _, _), parse_function_call(_, _),
          function_call_loop(_, _, _), parse_block_raw(_, _), block_loop(_, _, _),
          parse_block(_, _)

\* parse_partial_expression, OpenParenthesis arm, once parse_expression has returned expr
CloseParenthesized(toks, token, expr) ==
    LET p2 == next_token(toks, expr.p) IN
    IF expr.panic THEN expr
    ELSE IF CurType(toks, p2) = "CloseParenthesis"
         THEN [expr EXCEPT !.p = p2]
         ELSE PErr(token, "Missing closing parenthesis", p2)

parse_partial_expression(toks, p) ==
    LET token == current_token(toks, p) IN
    CASE token.token_type = "Alphanumeric" -> parse_variable(toks, p)
      [] token.token_type = "Numeric" -> parse_number(toks, p)
      [] token.token_type = "StaticString" -> parse_string(toks, p)
      [] token.token_type = "OpenParenthesis" ->
            CloseParenthesized(toks, token, parse_expression(toks, next_token(toks, p)))
      [] OTHER -> PErr(token, "Invalid token in expression", p)

\* parse_expression once parse_partial_expression has returned evaluatable
ExpressionAfter(toks, evaluatable) ==
    IF evaluatable.panic THEN evaluatable
    ELSE IF PeekType(toks, evaluatable.p) = "Operator"
         THEN IF evaluatable.ok
              THEN parse_operator(toks, next_token(toks, evaluatable.p), evaluatable.node)
              ELSE [evaluatable EXCEPT !.p = next_token(toks, evaluatable.p)]
         ELSE evaluatable

parse_expression(toks, p) == ExpressionAfter(toks, parse_partial_expression(toks, p))

\* parse_operator, the construction of the AstOperatorCall from lhs and the final rhs
OperatorCallOf(lhs_operator, lhs, rhs) ==
    IF ~rhs.ok THEN rhs
    ELSE IF from_token(lhs_operator) = "panic" THEN PPanic(rhs.p)
    ELSE POk([kind |-> "OperatorCall", lhs |-> lhs, rhs |-> rhs.node,
              operator |-> from_token(lhs_operator)], rhs.p)

\* parse_operator once parse_partial_expression has returned the operand first
OperatorAfter(toks, lhs_operator, lhs, first) ==
    IF ~first.ok THEN first
    ELSE IF PeekType(toks, first.p) # "Operator" THEN OperatorCallOf(lhs_operator, lhs, first)
    ELSE IF ~get_operator_precedence(lhs_operator).ok
            \/ ~get_operator_precedence(toks[first.p + 1]).ok
         THEN PErr(lhs_operator, "Invalid operator", first.p)
    ELSE IF get_operator_precedence(lhs_operator).value
              < get_operator_precedence(toks[first.p + 1]).value
         THEN OperatorCallOf(lhs_operator, lhs,
                             parse_operator(toks, next_token(toks, first.p), first.node))
    ELSE OperatorCallOf(lhs_operator, lhs, first)

parse_operator(toks, p, lhs) ==
    IF CurType(toks, p) # "Operator" THEN PPanic(p)
    ELSE IF ~HasNext(toks, p) THEN PErr(current_token(toks, p), "Missing rhs operand", p)
    ELSE OperatorAfter(toks, current_token(toks, p), lhs,
                       parse_partial_expression(toks, next_token(toks, p)))

\* the while loop of parse_function_declaration; node is the argument list
function_declaration_loop(toks, p, arguments) ==
    IF ~HasNext(toks, p) THEN POk(arguments, p)
    ELSE LET p1 == next_token(toks, p)
             token == toks[p1]
             added == Append(arguments, [kind |-> "Variable", name |-> token.text])
         IN  IF token.token_type = "CloseParenthesis" THEN POk(arguments, p1)
             ELSE IF token.token_type # "Alphanumeric"
                  THEN PErr(token, "Unexpected character when parsing function declaration", p1)
             ELSE IF PeekType(toks, p1) = "ParameterDivider"
                  THEN function_declaration_loop(toks, next_token(toks, p1), added)
             ELSE IF PeekType(toks, p1) = "CloseParenthesis"
                  THEN function_declaration_loop(toks, p1, added)
             ELSE PErr(token,
                       "Unexpected character when parsing function declaration arguments", p1)

FunctionDeclarationOf(arguments, body) ==
    IF ~body.ok THEN body
    ELSE POk([kind |-> "FunctionDeclaration", arguments |-> arguments, body |-> body.node],
             body.p)

\* parse_function_declaration after its argument loop
FunctionDeclarationAfter(toks, arguments) ==
    IF ~arguments.ok THEN arguments
    ELSE FunctionDeclarationOf(arguments.node,
                               parse_block_raw(toks, next_token(toks, arguments.p)))

parse_function_declaration(toks, p) ==
    IF CurType(toks, p) # "OpenParenthesis" THEN PPanic(p)
    ELSE FunctionDeclarationAfter(toks, function_declaration_loop(toks, p, <<>>))

RECURSIVE struct_declaration_loop(_, _, _, _)
struct_declaration_loop(toks, p, fields, types) ==
    IF ~HasNext(toks, p)
    THEN POk([kind |-> "StructDeclaration", fields |-> fields, types |-> types], p)
    ELSE LET p1 == next_token(toks, p)
             field_name_token == toks[p1]
             fields1 == Append(fields, field_name_token.text)
             p2 == next_token(toks, p1)
             p3 == next_token(toks, p2)
         IN  IF field_name_token.token_type = "CloseBlock"
             THEN POk([kind |-> "StructDeclaration", fields |-> fields, types |-> types], p1)
             ELSE IF field_name_token.token_type # "Alphanumeric"
                  THEN PErr(field_name_token,
                            "Unexpected character when parsing struct declaratoin, Alphanumeric expected", p1)
             ELSE IF ~HasNext(toks, p1) THEN PPanic(p1)
             ELSE IF toks[p2].token_type # "Symbol"
                  THEN PErr(toks[p2],
                            "Unexpected character when parsing struct declaration, Symbol expected", p2)
             ELSE IF ~HasNext(toks, p2) THEN PPanic(p2)
             ELSE IF toks[p3].token_type # "Alphanumeric"
                  THEN PErr(toks[p3],
                            "Unexpected character when parsing struct declaration, Alphanumeric expected", p3)
             ELSE struct_declaration_loop(toks, p3, Append(fields1, toks[p3].text), types)

parse_struct_declaration(toks, p) ==
    IF CurType(toks, p) # "OpenBlock" THEN PPanic(p)
    ELSE struct_declaration_loop(toks, p, <<>>, <<>>)

parse_static_expression(toks, p) ==
    LET token == current_token(toks, p) IN
    CASE token.token_type = "OpenParenthesis" -> parse_function_declaration(toks, p)
      [] token.token_type = "OpenBlock" -> parse_struct_declaration(toks, p)
      [] token.token_type \in {"Alphanumeric", "Numeric", "StaticString"} ->
            parse_expression(toks, p)
      [] OTHER -> PErr(token, "Invalid token in expression", p)

\* the AstAlias or AstAssignment of parse_assignment, from the parsed expression
BindingOf(kind, variable_name, expression) ==
    IF ~expression.ok THEN expression
    ELSE POk([kind |-> kind, to |-> variable_name, from |-> expression.node], expression.p)

\* parse_assignment from its assignment_type_token, the token at p2
AssignmentAfter(toks, variable_name, p2) ==
    CASE toks[p2].token_type = "StaticAssignment" ->
            BindingOf("Alias", variable_name,
                      parse_static_expression(toks, next_token(toks, p2)))
      [] toks[p2].token_type = "VariableAssignment" ->
            BindingOf("Assignment", variable_name,
                      parse_expression(toks, next_token(toks, p2)))
      [] OTHER -> PErr(toks[p2], "Unexpected character when parsing an assignment", p2)

\* p1 is the position after the optional type Symbol
AssignmentTyped(toks, variable_name, p1) ==
    IF ~HasNext(toks, p1) THEN PPanic(p1)
    ELSE AssignmentAfter(toks, variable_name, next_token(toks, p1))

parse_assignment(toks, p) ==
    IF CurType(toks, p) # "Alphanumeric" THEN PPanic(p)
    ELSE IF ~HasNext(toks, p) THEN PPanic(p)
    ELSE AssignmentTyped(toks, current_token(toks, p).text,
                         IF PeekType(toks, p) = "Symbol" THEN next_token(toks, p) ELSE p)

\* the while loop of parse_function_call, once parse_expression has returned expression
FunctionCallArgument(toks, arguments, expression) ==
    IF ~expression.ok THEN expression
    ELSE IF PeekType(toks, expression.p) = "ParameterDivider"
         THEN function_call_loop(toks, next_token(toks, expression.p),
                                 Append(arguments, expression.node))
    ELSE IF PeekType(toks, expression.p) = "CloseParenthesis"
         THEN function_call_loop(toks, expression.p, Append(arguments, expression.node))
    ELSE PErr(current_token(toks, expression.p),
              "Unexpected character when parsing function call arguments", expression.p)

\* the while loop of parse_function_call; node is the argument list
function_call_loop(toks, p, arguments) ==
    IF ~HasNext(toks, p) THEN POk(arguments, p)
    ELSE IF toks[next_token(toks, p)].token_type = "CloseParenthesis"
         THEN POk(arguments, next_token(toks, p))
    ELSE FunctionCallArgument(toks, arguments, parse_expression(toks, next_token(toks, p)))

FunctionCallWithBody(function_name, arguments, block) ==
    IF ~block.ok THEN block
    ELSE POk([kind |-> "FunctionCall", name |-> function_name, arguments |-> arguments,
              body |-> <<block.node>>], block.p)

\* parse_function_call after its argument loop
FunctionCallAfter(toks, function_name, arguments) ==
    IF ~arguments.ok THEN arguments
    ELSE IF PeekType(toks, arguments.p) = "OpenBlock"
         THEN FunctionCallWithBody(function_name, arguments.node,
                                   parse_block_raw(toks, next_token(toks, arguments.p)))
         ELSE POk([kind |-> "FunctionCall", name |-> function_name,
                   arguments |-> arguments.node, body |-> <<>>], arguments.p)

parse_function_call(toks, p) ==
    IF CurType(toks, p) # "Alphanumeric" THEN PPanic(p)
    ELSE IF ~HasNext(toks, p)
         THEN PErr(current_token(toks, p), "Unexpected character when parsing function call", p)
    ELSE IF CurType(toks, next_token(toks, p)) # "OpenParenthesis" THEN PPanic(p)
    ELSE FunctionCallAfter(toks, current_token(toks, p).text,
                           function_call_loop(toks, next_token(toks, p), <<>>))

parse_named(toks, p) ==
    CASE PeekType(toks, p) = "None" ->
            PErr(current_token(toks, p), "Unexpected end of stream when parsing a variable", p)
      [] PeekType(toks, p) \in {"Symbol", "VariableAssignment", "StaticAssignment"} ->
            parse_assignment(toks, p)
      [] PeekType(toks, p) = "OpenParenthesis" -> parse_function_call(toks, p)
      [] OTHER -> parse_expression(toks, p)

\* parse_statement, the match on the token taken after the statement: terminator is
\* that token, chained what the statement is once an Operator there has been parsed
StatementEnd(toks, terminator, chained) ==
    IF ~chained.ok THEN chained
    ELSE IF terminator.token_type = "EndOfStatement" THEN chained
    ELSE PErr(current_token(toks, chained.p), "Statements must end with a ; token", chained.p)

\* parse_statement once the head of the statement has been parsed as evaluatable
StatementAfter(toks, evaluatable) ==
    IF ~evaluatable.ok THEN evaluatable
    ELSE IF ~HasNext(toks, evaluatable.p)
         THEN PErr(current_token(toks, evaluatable.p),
                   "Unexpected end of stream when parsing statement", evaluatable.p)
    ELSE IF toks[next_token(toks, evaluatable.p)].token_type = "Operator"
         THEN StatementEnd(toks, toks[next_token(toks, evaluatable.p)],
                           parse_operator(toks, next_token(toks, evaluatable.p),
                                          evaluatable.node))
    ELSE StatementEnd(toks, toks[next_token(toks, evaluatable.p)],
                      POk(evaluatable.node, next_token(toks, evaluatable.p)))

parse_statement(toks, p) ==
    IF ~HasNext(toks, p)
    THEN PErr(current_token(toks, p), "Unexpected end of stream when parsing statement", p)
    ELSE CASE toks[next_token(toks, p)].token_type = "OpenBlock" ->
                 parse_block(toks, next_token(toks, p))
           [] toks[next_token(toks, p)].token_type = "EndOfStatement" ->
                 POk([kind |-> "NullValue"], next_token(toks, p))
           [] toks[next_token(toks, p)].token_type = "Alphanumeric" ->
                 StatementAfter(toks, parse_named(toks, next_token(toks, p)))
           [] OTHER -> StatementAfter(toks, parse_expression(toks, next_token(toks, p)))

\* the while loop of parse_block_raw once parse_statement has returned evaluatable
BlockStatement(toks, statements, evaluatable) ==
    IF ~evaluatable.ok THEN evaluatable
    ELSE block_loop(toks, evaluatable.p, Append(statements, evaluatable.node))

\* the while loop of parse_block_raw; node is the AstBlock
block_loop(toks, p, statements) ==
    CASE PeekType(toks, p) = "None" -> POk([statements |-> statements], p)
      [] PeekType(toks, p) = "CloseBlock" ->
            POk([statements |-> statements], next_token(toks, p))
      [] PeekType(toks, p) = "Comment" -> block_loop(toks, next_token(toks, p), statements)
      [] OTHER -> BlockStatement(toks, statements, parse_statement(toks, p))

\* Result<AstBlock, ParsingError>: node is the AstBlock
parse_block_raw(toks, p) ==
    IF ~current_token(toks, p).null_value /\ CurType(toks, p) # "OpenBlock" THEN PPanic(p)
    ELSE block_loop(toks, p, <<>>)

BlockNodeOf(block) ==
    IF ~block.ok THEN block
    ELSE POk([kind |-> "Block", block |-> block.node], block.p)

parse_block(toks, p) == BlockNodeOf(parse_block_raw(toks, p))

\* pub fn parse: Result<Ast, ParsingError>; node is Ast.root
parse(toks) == parse_block(toks, 0)

(***************************************************************************)
(* operators.rs, leg_sdl.rs                                                *)
(***************************************************************************)
\* InterpValue
InterpVoid == [t |-> "InterpVoid"]
InterpNumber(r) == [t |-> "InterpNumber", value |-> r]
InterpBoolean(b) == [t |-> "InterpBoolean", value |-> b]
InterpString(s) == [t |-> "InterpString", value |-> s]
InterpStruct(i) == [t |-> "InterpStruct", id |-> i]
InterpFunction(id, closure_id) == [t |-> "InterpFunction", id |-> id, closure_id |-> closure_id]

\* Result<InterpValue, InterpError>; panic is a failed assert_eq! or unwrap()
ROk(v) == [ok |-> TRUE, panic |-> FALSE, value |-> v, desc |-> "", name |-> <<>>]
RErr(desc, name) == [ok |-> FALSE, panic |-> FALSE, value |-> InterpVoid, desc |-> desc,
                     name |-> name]
RPanic == [ok |-> FALSE, panic |-> TRUE, value |-> InterpVoid, desc |-> "panic", name |-> <<>>]

\* a rational with no exact value in the model (a power with a fractional exponent)
Inexact == [n |-> 0, d |-> 0 - 1]

IsInteger(r) == r.d = 1

\* truncation toward zero of n / d, d > 0
Trunc(n, d) == IF n >= 0 THEN n \div d ELSE 0 - ((0 - n) \div d)

RECURSIVE PowInt(_, _)
PowInt(r, k) == IF k = 0 THEN Rat(1, 1) ELSE LET q == PowInt(r, k - 1) IN Rat(r.n * q.n, r.d * q.d)

apply_number_number_operation(lhs, rhs, operator) ==
    InterpNumber(
      CASE operator = "Add" -> Rat(lhs.n * rhs.d + rhs.n * lhs.d, lhs.d * rhs.d)
        [] operator = "Sub" -> Rat(lhs.n * rhs.d - rhs.n * lhs.d, lhs.d * rhs.d)
        [] operator = "Mult" -> Rat(lhs.n * rhs.n, lhs.d * rhs.d)
        [] operator = "Div" -> Rat(lhs.n * rhs.d, lhs.d * rhs.n)
        [] operator = "Pow" ->
              IF ~IsInteger(rhs) \/ lhs.d <= 0 THEN Inexact
              ELSE IF rhs.n >= 0 THEN PowInt(lhs, rhs.n)
              ELSE LET q == PowInt(lhs, 0 - rhs.n) IN Rat(q.d, q.n)
        [] operator = "Mod" ->
              IF lhs.d <= 0 \/ rhs.d <= 0 \/ rhs.n = 0 THEN Rat(0, 0)
              ELSE LET a == lhs.n * rhs.d
                       b == Abs(rhs.n * lhs.d)
                   IN  Rat(a - b * Trunc(a, b), lhs.d * rhs.d))

apply_operation(lhs, rhs, operator) ==
    IF lhs.t = "InterpNumber" /\ rhs.t = "InterpNumber"
    THEN ROk(apply_number_number_operation(lhs.value, rhs.value, operator))
    ELSE RErr("Operator not yet implemented", <<>>)

\* usize / integer part to decimal text
RECURSIVE NatToString(_)
NatToString(k) ==
    IF k < 10 THEN <<DigitSeq[k + 1]>> ELSE Append(NatToString(k \div 10), DigitSeq[(k % 10) + 1])

\* the fractional digits of rem / d by long division (f64 prints at most 17 significant digits)
RECURSIVE FracDigits(_, _, _)
FracDigits(rem, d, k) ==
    IF rem = 0 \/ k = 0 THEN <<>>
    ELSE <<DigitSeq[((rem * 10) \div d) + 1]>> \o FracDigits((rem * 10) % d, d, k - 1)

\* f64::to_string
NumberToString(r) ==
    IF r.d <= 0
    THEN (IF r.d < 0 \/ r.n = 0 THEN <<"N", "a", "N">>
          ELSE IF r.n > 0 THEN <<"i", "n", "f">> ELSE <<"-", "i", "n", "f">>)
    ELSE LET sign == IF r.n < 0 THEN <<"-">> ELSE <<>>
             whole == Abs(r.n) \div r.d
             rem == Abs(r.n) % r.d
         IN  sign \o NatToString(whole)
                  \o (IF rem = 0 THEN <<>> ELSE <<".">> \o FracDigits(rem, r.d, 16))

\* the line leg_sdl::print writes for one value
PrintLine(val) ==
    CASE val.t = "InterpVoid" -> <<"V", "O", "I", "D">>
      [] val.t = "InterpBoolean" ->
            <<"B", "O", "O", "L", "E", "A", "N", " ", "{">>
            \o (IF val.value THEN <<"t", "r", "u", "e">> ELSE <<"f", "a", "l", "s", "e">>)
            \o <<"}">>
      [] val.t = "InterpNumber" -> NumberToString(val.value)
      [] val.t = "InterpString" -> val.value
      [] val.t = "InterpFunction" ->
            <<"F", "U", "N", "C", "T", "I", "O", "N", " ">> \o NatToString(val.id)
      [] val.t = "InterpStruct" -> <<"S", "T", "R", "U", "C", "T", " ">> \o NatToString(val.id)

\* leg_sdl::print: the lines appended to standard output
RECURSIVE print(_)
print(arguments) ==
    IF arguments = <<>> THEN <<>>
    ELSE <<PrintLine(Head(arguments))>> \o print(Tail(arguments))

(***************************************************************************)
(* interp.rs                                                               *)
(***************************************************************************)
\* Interp.stack_size
stack_size == 10

\* cap on the closure table, above anything an evaluation bounded by stack_size allocates
MaxClosures == 40

\* evals_to_true holding of every Number, zero included
evals_to_true_any_number(v) == v.t = "InterpNumber"

evals_to_true(v) == v.t = "InterpNumber" /\ ~(v.value.n = 0 /\ v.value.d > 0)

NoParent == 0 - 1

EmptyVariables == [n \in {} |-> InterpVoid]

\* Closure::new
NewClosure(creator, parent_closure) ==
    [creator |-> creator, variables |-> EmptyVariables, parent_id |-> parent_closure]

\* StackFrame::new
NewStackFrame(creator, closure) == [index |-> 0, creator |-> creator, closure_id |-> closure]

\* a frame chain is a sequence: the frame, its parent_frame, the parent's parent_frame, ...
set_parent_frame(new_frame, parent_chain) ==
    <<[new_frame EXCEPT !.index = parent_chain[1].index + 1]>> \o parent_chain

\* closures[id]
get_closure_by_id(cls, id) == cls[id + 1]

\* get_variable_of_closure with Void for a name no closure of the chain binds
RECURSIVE get_variable_of_closure_or_void(_, _, _)
get_variable_of_closure_or_void(cls, name, id) ==
    LET closure == get_closure_by_id(cls, id) IN
    IF name \in DOMAIN closure.variables THEN ROk(closure.variables[name])
    ELSE IF closure.parent_id # NoParent
         THEN get_variable_of_closure_or_void(cls, name, closure.parent_id)
         ELSE ROk(InterpVoid)

RECURSIVE get_variable_of_closure(_, _, _)
get_variable_of_closure(cls, name, id) ==
    LET closure == get_closure_by_id(cls, id) IN
    IF name \in DOMAIN closure.variables THEN ROk(closure.variables[name])
    ELSE IF closure.parent_id # NoParent
         THEN get_variable_of_closure(cls, name, closure.parent_id)
         ELSE RErr("Unable to find variable", name)

get_variable(cls, frs, name) == get_variable_of_closure(cls, name, frs[1].closure_id)

\* HashMap::insert
Insert(variables, name, value) ==
    [n \in DOMAIN variables \cup {name} |-> IF n = name THEN value ELSE variables[n]]

\* set_variable as a rebinding store: the nearest closure of the scope chain that
\* already binds the name is written, the root closure when none does
RECURSIVE set_variable_enclosing(_, _, _, _)
set_variable_enclosing(cls, frs, name, value) ==
    LET id == frs[1].closure_id
        closure == get_closure_by_id(cls, id)
    IN  IF name \in DOMAIN closure.variables \/ closure.parent_id = NoParent
        THEN [cls EXCEPT ![id + 1].variables = Insert(closure.variables, name, value)]
        ELSE set_variable_enclosing(cls, <<[frs[1] EXCEPT !.closure_id = closure.parent_id]>>,
                                    name, value)

\* set_variable putting a new closure with the one binding in the current closure's place
set_variable_replacing(cls, frs, name, value) ==
    LET id == frs[1].closure_id IN
    [cls EXCEPT ![id + 1] = [NewClosure(@.creator, @.parent_id)
                               EXCEPT !.variables = Insert(EmptyVariables, name, value)]]

\* the closure table after set_variable
set_variable(cls, frs, name, value) ==
    LET id == frs[1].closure_id IN
    [cls EXCEPT ![id + 1].variables = Insert(cls[id + 1].variables, name, value)]

\* push_frame with the new frame left on the closure of the frame it is pushed on
push_frame_keeps_closure(frs, creator, closure_id) ==
    IF frs[1].index > stack_size
    THEN [ok |-> FALSE, frames |-> frs]
    ELSE [ok |-> TRUE,
          frames |-> set_parent_frame(NewStackFrame(creator, frs[1].closure_id), frs)]

\* push_frame without the depth test
push_frame_unchecked(frs, creator, closure_id) ==
    [ok |-> TRUE, frames |-> set_parent_frame(NewStackFrame(creator, closure_id), frs)]

\* Ok with the new chain, or the stack-overflow Err with the chain unchanged
push_frame(frs, creator, closure_id) ==
    IF frs[1].index > stack_size
    THEN [ok |-> FALSE, frames |-> frs]
    ELSE [ok |-> TRUE, frames |-> set_parent_frame(NewStackFrame(creator, closure_id), frs)]

\* pop_frame leaving the current frame in place
pop_frame_keeping(frs) == [ok |-> TRUE, frames |-> frs]

pop_frame(frs) ==
    IF Len(frs) > 1
    THEN [ok |-> TRUE, frames |-> Tail(frs)]
    ELSE [ok |-> FALSE, frames |-> frs]

\* add_closure with the root closure as the parent of every new closure
add_closure_under_root(cls, creator, parent_closure_id) ==
    Append(cls, NewClosure(creator, 0))

\* the table after add_closure; the new id is Len(cls)
add_closure(cls, creator, parent_closure_id) ==
    Append(cls, NewClosure(creator, parent_closure_id))

\* evaluate_block up to its loop: the closure is added, the frame pushed (or the
\* push fails and evaluate_block returns the error), under the activations K
evaluate_block(cls, frs, creator, block, K) ==
    LET closure_id == Len(cls)
        cls1 == add_closure(cls, creator, frs[1].closure_id)
        pushed == push_frame(frs, creator, closure_id)
    IN  IF pushed.ok
        THEN [closures |-> cls1, frames |-> pushed.frames,
              kont |-> <<[k |-> "block", statements |-> block.statements, next |-> 1]>> \o K,
              ctl |-> [mode |-> "ret", res |-> ROk(InterpVoid)]]
        ELSE [closures |-> cls1, frames |-> frs, kont |-> K,
              ctl |-> [mode |-> "ret", res |-> RErr("Stack overflow!", <<>>)]]

(***************************************************************************)
(* The built-in call names                                                 *)
(***************************************************************************)
NameWhile == <<"w", "h", "i", "l", "e">>
NameIf == <<"i", "f">>
NamePrint == <<"p", "r", "i", "n", "t">>

(***************************************************************************)
(* main.rs: tokenize, parse, interp                                        *)
(***************************************************************************)
NoResult == [stage |-> "none", res |-> ROk(InterpVoid)]

NoTokens == [ok |-> FALSE, tokens |-> <<>>, token |-> NullToken, desc |-> "not run"]

NoAst == PErr(NullToken, "not run", 0)

Idle == [mode |-> "idle"]

InitWith(scripts) ==
    /\ src \in scripts
    /\ pc = "tokenize"
    /\ tokens = NoTokens
    /\ ast = NoAst
    /\ closures = <<>>
    /\ functions = <<>>
    /\ structs = <<>>
    /\ frames = <<>>
    /\ ctl = Idle
    /\ kont = <<>>
    /\ output = <<>>
    /\ result = NoResult

Tokenize ==
    /\ pc = "tokenize"
    /\ tokens' = tokenize(src)
    /\ pc' = IF tokens'.ok THEN "parse" ELSE "done"
    /\ result' = IF tokens'.ok THEN result
                 ELSE [stage |-> "tokenize", res |-> RErr(tokens'.desc, tokens'.token.text)]
    /\ UNCHANGED <<src, ast, closures, functions, structs, frames, ctl, kont, output>>

Parse ==
    /\ pc = "parse"
    /\ ast' = parse(tokens.tokens)
    /\ pc' = IF ast'.ok THEN "interp" ELSE "done"
    /\ result' = IF ast'.ok THEN result
                 ELSE [stage |-> "parse",
                       res |-> IF ast'.panic THEN RPanic ELSE RErr(ast'.desc, ast'.token.text)]
    /\ UNCHANGED <<src, tokens, closures, functions, structs, frames, ctl, kont, output>>

\* pub fn interp, up to its call of evaluate_next(root_expr)
Interp ==
    /\ pc = "interp"
    /\ closures' = <<NewClosure("Block", NoParent)>>
    /\ frames' = <<NewStackFrame("Block", 0)>>
    /\ functions' = <<>>
    /\ structs' = <<>>
    /\ ctl' = [mode |-> "eval", node |-> ast.node]
    /\ kont' = <<>>
    /\ pc' = "evaluate"
    /\ UNCHANGED <<src, tokens, ast, output, result>>

\* evaluate_next is entered for a node of this kind
Evaluating(kind) == pc = "evaluate" /\ ctl.mode = "eval" /\ ctl.node.kind = kind

\* a result is being returned to the activation k
Returning(k) == pc = "evaluate" /\ ctl.mode = "ret" /\ kont # <<>> /\ kont[1].k = k

Return(res) == [mode |-> "ret", res |-> res]

\* interp returns what evaluate_next(root_expr) returned
Finish ==
    /\ pc = "evaluate"
    /\ ctl.mode = "ret"
    /\ kont = <<>>
    /\ pc' = "done"
    /\ result' = [stage |-> "interp", res |-> ctl.res]
    /\ UNCHANGED <<src, tokens, ast, closures, functions, structs, frames, ctl, kont, output>>

\* the ? operator in evaluate_block and evaluate_next: the Err is returned at once
PropagateError ==
    /\ pc = "evaluate"
    /\ ctl.mode = "ret"
    /\ ~ctl.res.ok
    /\ kont # <<>>
    /\ kont[1].k # "call"
    /\ kont' = Tail(kont)
    /\ UNCHANGED <<src, pc, tokens, ast, closures, functions, structs, frames, ctl, output, result>>

EvalBlock ==
    /\ Evaluating("Block")
    /\ Len(closures) < MaxClosures
    /\ LET s == evaluate_block(closures, frames, "Block", ctl.node.block, kont) IN
        /\ closures' = s.closures
        /\ frames' = s.frames
        /\ kont' = s.kont
        /\ ctl' = s.ctl
    /\ UNCHANGED <<src, pc, tokens, ast, functions, structs, output, result>>

\* evaluate_block: the next statement of the loop
BlockNext ==
    /\ Returning("block")
    /\ ctl.res.ok
    /\ kont[1].next <= Len(kont[1].statements)
    /\ ctl' = [mode |-> "eval", node |-> kont[1].statements[kont[1].next]]
    /\ kont' = [kont EXCEPT ![1].next = @ + 1]
    /\ UNCHANGED <<src, pc, tokens, ast, closures, functions, structs, frames, output, result>>

\* the end of evaluate_block returning Void whatever the last statement gave
BlockEndVoid ==
    /\ Returning("block")
    /\ ctl.res.ok
    /\ kont[1].next > Len(kont[1].statements)
    /\ frames' = pop_frame(frames).frames
    /\ ctl' = Return(ROk(InterpVoid))
    /\ kont' = Tail(kont)
    /\ UNCHANGED <<src, pc, tokens, ast, closures, functions, structs, output, result>>

\* evaluate_block: after the loop, pop_frame()? and Ok(res)
BlockEnd ==
    /\ Returning("block")
    /\ ctl.res.ok
    /\ kont[1].next > Len(kont[1].statements)
    /\ LET popped == pop_frame(frames) IN
        /\ frames' = popped.frames
        /\ ctl' = IF popped.ok THEN ctl ELSE Return(RErr("Unable to pop from stack", <<>>))
    /\ kont' = Tail(kont)
    /\ UNCHANGED <<src, pc, tokens, ast, closures, functions, structs, output, result>>

EvalStringValue ==
    /\ Evaluating("StringValue")
    /\ ctl' = Return(ROk(InterpString(ctl.node.value)))
    /\ UNCHANGED <<src, pc, tokens, ast, closures, functions, structs, frames, kont, output, result>>

EvalNumberValue ==
    /\ Evaluating("NumberValue")
    /\ ctl' = Return(ROk(InterpNumber(ctl.node.value)))
    /\ UNCHANGED <<src, pc, tokens, ast, closures, functions, structs, frames, kont, output, result>>

EvalNullValue ==
    /\ Evaluating("NullValue")
    /\ ctl' = Return(ROk(InterpVoid))
    /\ UNCHANGED <<src, pc, tokens, ast, closures, functions, structs, frames, kont, output, result>>

EvalVariable ==
    /\ Evaluating("Variable")
    /\ ctl' = Return(get_variable(closures, frames, ctl.node.name))
    /\ UNCHANGED <<src, pc, tokens, ast, closures, functions, structs, frames, kont, output, result>>

EvalAssignment ==
    /\ Evaluating("Assignment")
    /\ kont' = <<[k |-> "Assignment", name |-> ctl.node.to]>> \o kont
    /\ ctl' = [mode |-> "eval", node |-> ctl.node.from]
    /\ UNCHANGED <<src, pc, tokens, ast, closures, functions, structs, frames, output, result>>

AssignmentReturn ==
    /\ Returning("Assignment")
    /\ ctl.res.ok
    /\ closures' = set_variable(closures, frames, kont[1].name, ctl.res.value)
    /\ ctl' = Return(ROk(InterpVoid))
    /\ kont' = Tail(kont)
    /\ UNCHANGED <<src, pc, tokens, ast, functions, structs, frames, output, result>>

EvalAlias ==
    /\ Evaluating("Alias")
    /\ kont' = <<[k |-> "Alias", name |-> ctl.node.to]>> \o kont
    /\ ctl' = [mode |-> "eval", node |-> ctl.node.from]
    /\ UNCHANGED <<src, pc, tokens, ast, closures, functions, structs, frames, output, result>>

AliasReturn ==
    /\ Returning("Alias")
    /\ ctl.res.ok
    /\ closures' = set_variable(closures, frames, kont[1].name, ctl.res.value)
    /\ ctl' = Return(ROk(InterpVoid))
    /\ kont' = Tail(kont)
    /\ UNCHANGED <<src, pc, tokens, ast, functions, structs, frames, output, result>>

EvalOperatorCall ==
    /\ Evaluating("OperatorCall")
    /\ kont' = <<[k |-> "lhs", node |-> ctl.node]>> \o kont
    /\ ctl' = [mode |-> "eval", node |-> ctl.node.lhs]
    /\ UNCHANGED <<src, pc, tokens, ast, closures, functions, structs, frames, output, result>>

OperatorLhsReturn ==
    /\ Returning("lhs")
    /\ ctl.res.ok
    /\ kont' = <<[k |-> "rhs", lhs |-> ctl.res.value, operator |-> kont[1].node.operator]>>
               \o Tail(kont)
    /\ ctl' = [mode |-> "eval", node |-> kont[1].node.rhs]
    /\ UNCHANGED <<src, pc, tokens, ast, closures, functions, structs, frames, output, result>>

OperatorRhsReturn ==
    /\ Returning("rhs")
    /\ ctl.res.ok
    /\ ctl' = Return(apply_operation(kont[1].lhs, ctl.res.value, kont[1].operator))
    /\ kont' = Tail(kont)
    /\ UNCHANGED <<src, pc, tokens, ast, closures, functions, structs, frames, output, result>>

EvalStructDeclaration ==
    /\ Evaluating("StructDeclaration")
    /\ structs' = Append(structs, ctl.node)
    /\ ctl' = Return(ROk(InterpStruct(Len(structs))))
    /\ UNCHANGED <<src, pc, tokens, ast, closures, functions, frames, kont, output, result>>

EvalFunctionDeclaration ==
    /\ Evaluating("FunctionDeclaration")
    /\ Len(closures) < MaxClosures
    /\ functions' = Append(functions, ctl.node)
    /\ closures' = add_closure(closures, "FunctionDeclaration", frames[1].closure_id)
    /\ ctl' = Return(ROk(InterpFunction(Len(functions), Len(closures))))
    /\ UNCHANGED <<src, pc, tokens, ast, structs, frames, kont, output, result>>

\* FunctionCall: the argument loop
EvalFunctionCall ==
    /\ Evaluating("FunctionCall")
    /\ ctl.node.arguments # <<>>
    /\ kont' = <<[k |-> "arguments", node |-> ctl.node, args |-> <<>>]>> \o kont
    /\ ctl' = [mode |-> "eval", node |-> ctl.node.arguments[1]]
    /\ UNCHANGED <<src, pc, tokens, ast, closures, functions, structs, frames, output, result>>

ArgumentNext ==
    /\ Returning("arguments")
    /\ ctl.res.ok
    /\ Len(kont[1].args) + 1 < Len(kont[1].node.arguments)
    /\ kont' = [kont EXCEPT ![1].args = Append(@, ctl.res.value)]
    /\ ctl' = [mode |-> "eval", node |-> kont[1].node.arguments[Len(kont[1].args) + 2]]
    /\ UNCHANGED <<src, pc, tokens, ast, closures, functions, structs, frames, output, result>>

\* FunctionCall: every argument is evaluated and the name is dispatched on
DispatchReady ==
    /\ pc = "evaluate"
    /\ IF ctl.mode = "eval"
       THEN ctl.node.kind = "FunctionCall" /\ ctl.node.arguments = <<>>
       ELSE /\ ctl.mode = "ret"
            /\ ctl.res.ok
            /\ kont # <<>>
            /\ kont[1].k = "arguments"
            /\ Len(kont[1].args) + 1 = Len(kont[1].node.arguments)

CallNode == IF ctl.mode = "eval" THEN ctl.node ELSE kont[1].node

CallArgs == IF ctl.mode = "eval" THEN <<>> ELSE Append(kont[1].args, ctl.res.value)

\* the activations under the FunctionCall's own
CallKont == IF ctl.mode = "eval" THEN kont ELSE Tail(kont)

CallWhile ==
    /\ DispatchReady
    /\ CallNode.name = NameWhile
    /\ ctl' = Return(RErr("Unable to find function", CallNode.name))
    /\ kont' = CallKont
    /\ UNCHANGED <<src, pc, tokens, ast, closures, functions, structs, frames, output, result>>

CallIf ==
    /\ DispatchReady
    /\ CallNode.name = NameIf
    /\ Len(closures) < MaxClosures
    /\ IF Len(CallArgs) # 1
       THEN /\ ctl' = Return(RErr("if statements can only have one parameter", <<>>))
            /\ kont' = CallKont
            /\ UNCHANGED <<closures, frames>>
       ELSE IF CallNode.body = <<>>
       THEN /\ ctl' = Return(RErr("If statement must have a body", <<>>))
            /\ kont' = CallKont
            /\ UNCHANGED <<closures, frames>>
       ELSE IF evals_to_true(CallArgs[1])
       THEN LET s == evaluate_block(closures, frames, "FunctionCall", CallNode.body[1], CallKont)
            IN  /\ closures' = s.closures
                /\ frames' = s.frames
                /\ kont' = s.kont
                /\ ctl' = s.ctl
       ELSE /\ ctl' = Return(ROk(InterpVoid))
            /\ kont' = CallKont
            /\ UNCHANGED <<closures, frames>>
    /\ UNCHANGED <<src, pc, tokens, ast, functions, structs, output, result>>

CallPrint ==
    /\ DispatchReady
    /\ CallNode.name = NamePrint
    /\ output' = output \o print(CallArgs)
    /\ ctl' = Return(ROk(InterpVoid))
    /\ kont' = CallKont
    /\ UNCHANGED <<src, pc, tokens, ast, closures, functions, structs, frames, result>>

\* the call is none of the built-ins: the name is looked up as a variable
DispatchLookup ==
    /\ DispatchReady
    /\ CallNode.name \notin {NameWhile, NameIf, NamePrint}

\* let interp_value = self.get_variable(name)?
CallUnknownName ==
    /\ DispatchLookup
    /\ ~get_variable(closures, frames, CallNode.name).ok
    /\ ctl' = Return(get_variable(closures, frames, CallNode.name))
    /\ kont' = CallKont
    /\ UNCHANGED <<src, pc, tokens, ast, closures, functions, structs, frames, output, result>>

\* maybe_index is None
CallNotFunction ==
    /\ DispatchLookup
    /\ get_variable(closures, frames, CallNode.name).ok
    /\ get_variable(closures, frames, CallNode.name).value.t # "InterpFunction"
    /\ ctl' = Return(RErr("Unable to find function", CallNode.name))
    /\ kont' = CallKont
    /\ UNCHANGED <<src, pc, tokens, ast, closures, functions, structs, frames, output, result>>

\* the closure table after the zip loop of set_variable calls
RECURSIVE BindArguments(_, _, _, _)
BindArguments(cls, frs, argument_names, args) ==
    IF argument_names = <<>> \/ args = <<>> THEN cls
    ELSE BindArguments(set_variable(cls, frs, Head(argument_names).name, Head(args)),
                       frs, Tail(argument_names), Tail(args))

\* the called value is a Function: the frame is pushed on its captured closure, the
\* arguments are bound, and evaluate_block of the body is entered
CallFunction ==
    /\ DispatchLookup
    /\ Len(closures) < MaxClosures
    /\ get_variable(closures, frames, CallNode.name).ok
    /\ get_variable(closures, frames, CallNode.name).value.t = "InterpFunction"
    /\ LET callee == get_variable(closures, frames, CallNode.name).value
           func == functions[callee.id + 1]
           pushed == push_frame(frames, "FunctionCall", callee.closure_id)
           bound == BindArguments(closures, pushed.frames, func.arguments, CallArgs)
           s == evaluate_block(bound, pushed.frames, "FunctionCall", func.body,
                               <<[k |-> "call", callee |-> callee]>> \o CallKont)
       IN  IF \E i \in 1..Len(func.arguments) : func.arguments[i].kind # "Variable"
           THEN /\ ctl' = Return(RErr("Invalid argument expression", <<>>))
                /\ kont' = CallKont
                /\ UNCHANGED <<closures, frames, pc, result>>
           ELSE IF Len(func.arguments) # Len(CallArgs)
           THEN /\ ctl' = Return(RPanic)
                /\ kont' = <<>>
                /\ pc' = "done"
                /\ result' = [stage |-> "interp", res |-> RPanic]
                /\ UNCHANGED <<closures, frames>>
           ELSE IF ~pushed.ok
           THEN /\ ctl' = Return(RErr("Stack overflow!", <<>>))
                /\ kont' = CallKont
                /\ UNCHANGED <<closures, frames, pc, result>>
           ELSE /\ closures' = s.closures
                /\ frames' = s.frames
                /\ kont' = s.kont
                /\ ctl' = s.ctl
                /\ UNCHANGED <<pc, result>>
    /\ UNCHANGED <<src, tokens, ast, functions, structs, output>>

\* let res = self.evaluate_block(node, &func.body); self.pop_frame(); return res
CallReturn ==
    /\ Returning("call")
    /\ frames' = pop_frame(frames).frames
    /\ kont' = Tail(kont)
    /\ UNCHANGED <<src, pc, tokens, ast, closures, functions, structs, ctl, output, result>>

\* a step of evaluate_next(root_expr), up to the return of its result
Evaluate ==
    \/ Finish
    \/ PropagateError
    \/ EvalBlock
    \/ BlockNext
    \/ BlockEnd
    \/ EvalStringValue
    \/ EvalNumberValue
    \/ EvalNullValue
    \/ EvalVariable
    \/ EvalAssignment
    \/ AssignmentReturn
    \/ EvalAlias
    \/ AliasReturn
    \/ EvalOperatorCall
    \/ OperatorLhsReturn
    \/ OperatorRhsReturn
    \/ EvalStructDeclaration
    \/ EvalFunctionDeclaration
    \/ EvalFunctionCall
    \/ ArgumentNext
    \/ CallWhile
    \/ CallIf
    \/ CallPrint
    \/ CallUnknownName
    \/ CallNotFunction
    \/ CallFunction
    \/ CallReturn

\* main: tokenize, then parse, then interp
Next ==
    \/ Tokenize
    \/ Parse
    \/ Interp
    \/ Evaluate

(***************************************************************************)
(* The scripts the model runs                                              *)
(***************************************************************************)
\* { x = 1; { x = 2; }; print(x); }
ScopingScript ==
    <<"{", " ", "x", " ", "=", " ", "1", ";", " ", "{", " ", "x", " ", "=", " ", "2", ";",
      " ", "}", ";", " ", "p", "r", "i", "n", "t", "(", "x", ")", ";", " ", "}">>

\* x = 1; f :: () { print(x); }; { x = 2; f(); };
ClosureScript ==
    <<"x", " ", "=", " ", "1", ";", " ", "f", " ", ":", ":", " ", "(", ")", " ", "{", " ",
      "p", "r", "i", "n", "t", "(", "x", ")", ";", " ", "}", ";", " ", "{", " ", "x", " ",
      "=", " ", "2", ";", " ", "f", "(", ")", ";", " ", "}", ";">>

\* f :: () { print(z); }; { z = 3; f(); };
CallerScopeScript ==
    <<"f", " ", ":", ":", " ", "(", ")", " ", "{", " ", "p", "r", "i", "n", "t", "(", "z",
      ")", ";", " ", "}", ";", " ", "{", " ", "z", " ", "=", " ", "3", ";", " ", "f", "(",
      ")", ";", " ", "}", ";">>

\* apply :: (fn) { fn(); }; { y = 5; h :: () { print(y); }; apply(h); };
CallbackScript ==
    <<"a", "p", "p", "l", "y", " ", ":", ":", " ", "(", "f", "n", ")", " ", "{", " ", "f",
      "n", "(", ")", ";", " ", "}", ";", " ", "{", " ", "y", " ", "=", " ", "5", ";", " ",
      "h", " ", ":", ":", " ", "(", ")", " ", "{", " ", "p", "r", "i", "n", "t", "(", "y",
      ")", ";", " ", "}", ";", " ", "a", "p", "p", "l", "y", "(", "h", ")", ";", " ", "}",
      ";">>

\* f :: () { f(); }; f();
RecursionScript ==
    <<"f", " ", ":", ":", " ", "(", ")", " ", "{", " ", "f", "(", ")", ";", " ", "}", ";",
      " ", "f", "(", ")", ";">>

\* g :: (n) { print(n); g(n + 1); }; g(0);
CountingRecursionScript ==
    <<"g", " ", ":", ":", " ", "(", "n", ")", " ", "{", " ", "p", "r", "i", "n", "t", "(",
      "n", ")", ";", " ", "g", "(", "n", " ", "+", " ", "1", ")", ";", " ", "}", ";", " ",
      "g", "(", "0", ")", ";">>

\* message :String :: "Hello \" World"; print(message);
HelloScript ==
    <<"m", "e", "s", "s", "a", "g", "e", " ", ":", "S", "t", "r", "i", "n", "g", " ", ":",
      ":", " ", "\"", "H", "e", "l", "l", "o", " ", "\\", "\"", " ", "W", "o", "r", "l",
      "d", "\"", ";", " ", "p", "r", "i", "n", "t", "(", "m", "e", "s", "s", "a", "g", "e",
      ")", ";">>

\* message :: "Hello \" World"; print(message);
UntypedHelloScript ==
    <<"m", "e", "s", "s", "a", "g", "e", " ", ":", ":", " ", "\"", "H", "e", "l", "l", "o",
      " ", "\\", "\"", " ", "W", "o", "r", "l", "d", "\"", ";", " ", "p", "r", "i", "n",
      "t", "(", "m", "e", "s", "s", "a", "g", "e", ")", ";">>

\* count :int :: 1; print(count);
TypedAliasScript ==
    <<"c", "o", "u", "n", "t", " ", ":", "i", "n", "t", " ", ":", ":", " ", "1", ";", " ",
      "p", "r", "i", "n", "t", "(", "c", "o", "u", "n", "t", ")", ";">>

\* count :int = 1; print(count);
TypedAssignmentScript ==
    <<"c", "o", "u", "n", "t", " ", ":", "i", "n", "t", " ", "=", " ", "1", ";", " ", "p",
      "r", "i", "n", "t", "(", "c", "o", "u", "n", "t", ")", ";">>

\* f :: (n) { if(n) { f(n - 1); }; print(n); }; f(1);
RecursiveArgumentScript ==
    <<"f", " ", ":", ":", " ", "(", "n", ")", " ", "{", " ", "i", "f", "(", "n", ")", " ",
      "{", " ", "f", "(", "n", " ", "-", " ", "1", ")", ";", " ", "}", ";", " ", "p", "r",
      "i", "n", "t", "(", "n", ")", ";", " ", "}", ";", " ", "f", "(", "1", ")", ";">>

\* f :: (a) { if(a) { print(y); }; y = 1; }; f(0); f(1);
InvocationScopeScript ==
    <<"f", " ", ":", ":", " ", "(", "a", ")", " ", "{", " ", "i", "f", "(", "a", ")", " ",
      "{", " ", "p", "r", "i", "n", "t", "(", "y", ")", ";", " ", "}", ";", " ", "y", " ",
      "=", " ", "1", ";", " ", "}", ";", " ", "f", "(", "0", ")", ";", " ", "f", "(", "1",
      ")", ";">>

\* s :: { a :int }; f :: () { }; if("") { print(1); }; if(s) { print(2); }; if(f) { print(3); };
IfKindsScript ==
    <<"s", " ", ":", ":", " ", "{", " ", "a", " ", ":", "i", "n", "t", " ", "}", ";", " ",
      "f", " ", ":", ":", " ", "(", ")", " ", "{", " ", "}", ";", " ", "i", "f", "(", "\"",
      "\"", ")", " ", "{", " ", "p", "r", "i", "n", "t", "(", "1", ")", ";", " ", "}", ";",
      " ", "i", "f", "(", "s", ")", " ", "{", " ", "p", "r", "i", "n", "t", "(", "2", ")",
      ";", " ", "}", ";", " ", "i", "f", "(", "f", ")", " ", "{", " ", "p", "r", "i", "n",
      "t", "(", "3", ")", ";", " ", "}", ";">>

\* if(2) { print(1); 7; };
IfValueScript ==
    <<"i", "f", "(", "2", ")", " ", "{", " ", "p", "r", "i", "n", "t", "(", "1", ")", ";",
      " ", "7", ";", " ", "}", ";">>

\* x=1;
NoSpaceAssignmentScript ==
    <<"x", "=", "1", ";">>

\* { x = 1;
UnclosedBlockScript ==
    <<"{", " ", "x", " ", "=", " ", "1", ";">>

\* f :: () { x = 1;
UnclosedFunctionBodyScript ==
    <<"f", " ", ":", ":", " ", "(", ")", " ", "{", " ", "x", " ", "=", " ", "1", ";">>

\* if(1) { print(1);
UnclosedCallBodyScript ==
    <<"i", "f", "(", "1", ")", " ", "{", " ", "p", "r", "i", "n", "t", "(", "1", ")", ";">>

\* p :: { a :int b :str };
StructTypesScript ==
    <<"p", " ", ":", ":", " ", "{", " ", "a", " ", ":", "i", "n", "t", " ", "b", " ", ":",
      "s", "t", "r", " ", "}", ";">>

\* f :: () 1;
ParameterListWithoutBodyScript ==
    <<"f", " ", ":", ":", " ", "(", ")", " ", "1", ";">>

\* s :: { a
TruncatedStructScript ==
    <<"s", " ", ":", ":", " ", "{", " ", "a">>

\* x = 
TruncatedAssignmentScript ==
    <<"x", " ", "=", " ">>

\* print(1); print(2); print(3);
OrderScript ==
    <<"p", "r", "i", "n", "t", "(", "1", ")", ";", " ", "p", "r", "i", "n", "t", "(", "2",
      ")", ";", " ", "p", "r", "i", "n", "t", "(", "3", ")", ";">>

\* print(1); y; print(2);
FailingStatementScript ==
    <<"p", "r", "i", "n", "t", "(", "1", ")", ";", " ", "y", ";", " ", "p", "r", "i", "n",
      "t", "(", "2", ")", ";">>

\* { 1; 7; }
LastValueScript ==
    <<"{", " ", "1", ";", " ", "7", ";", " ", "}">>

\* 7; { }
EmptyBlockScript ==
    <<"7", ";", " ", "{", " ", "}">>

\* 7; x = 1;
LastAssignmentScript ==
    <<"7", ";", " ", "x", " ", "=", " ", "1", ";">>

\* 7; f :: () { };
LastAliasScript ==
    <<"7", ";", " ", "f", " ", ":", ":", " ", "(", ")", " ", "{", " ", "}", ";">>

\* 7; print(1);
LastPrintScript ==
    <<"7", ";", " ", "p", "r", "i", "n", "t", "(", "1", ")", ";">>

\* 7; ;
LastEmptyStatementScript ==
    <<"7", ";", " ", ";">>

\* print(1); } print(2);
StrayCloseBlockScript ==
    <<"p", "r", "i", "n", "t", "(", "1", ")", ";", " ", "}", " ", "p", "r", "i", "n", "t",
      "(", "2", ")", ";">>

\* print(doesNotExist);
UndefinedScript ==
    <<"p", "r", "i", "n", "t", "(", "d", "o", "e", "s", "N", "o", "t", "E", "x", "i", "s",
      "t", ")", ";">>

\* if(1) { print("a"); }; if(0) { print("b"); }; if(1);
IfScript ==
    <<"i", "f", "(", "1", ")", " ", "{", " ", "p", "r", "i", "n", "t", "(", "\"", "a",
      "\"", ")", ";", " ", "}", ";", " ", "i", "f", "(", "0", ")", " ", "{", " ", "p", "r",
      "i", "n", "t", "(", "\"", "b", "\"", ")", ";", " ", "}", ";", " ", "i", "f", "(",
      "1", ")", ";">>

\* if(1, 2) { };
IfArityScript ==
    <<"i", "f", "(", "1", ",", " ", "2", ")", " ", "{", " ", "}", ";">>

\* while(1) { print(1); };
WhileScript ==
    <<"w", "h", "i", "l", "e", "(", "1", ")", " ", "{", " ", "p", "r", "i", "n", "t", "(",
      "1", ")", ";", " ", "}", ";">>

\* s :: { a :int b :int }; print(s);
StructScript ==
    <<"s", " ", ":", ":", " ", "{", " ", "a", " ", ":", "i", "n", "t", " ", "b", " ", ":",
      "i", "n", "t", " ", "}", ";", " ", "p", "r", "i", "n", "t", "(", "s", ")", ";">>

\* f :: (a) { }; f();
ArityScript ==
    <<"f", " ", ":", ":", " ", "(", "a", ")", " ", "{", " ", "}", ";", " ", "f", "(", ")",
      ";">>

\* x = 1; x();
NotFunctionScript ==
    <<"x", " ", "=", " ", "1", ";", " ", "x", "(", ")", ";">>

\* g();
UnknownFunctionScript ==
    <<"g", "(", ")", ";">>

\* x = "a" + 1;
OperatorTypeScript ==
    <<"x", " ", "=", " ", "\"", "a", "\"", " ", "+", " ", "1", ";">>

\* f :: (a, b) { print(a, b); }; f(1, 2 * 3);
ArgumentsScript ==
    <<"f", " ", ":", ":", " ", "(", "a", ",", " ", "b", ")", " ", "{", " ", "p", "r", "i",
      "n", "t", "(", "a", ",", " ", "b", ")", ";", " ", "}", ";", " ", "f", "(", "1", ",",
      " ", "2", " ", "*", " ", "3", ")", ";">>

\* print(1.5, 7 / 2, 10 % 4);
PrintScript ==
    <<"p", "r", "i", "n", "t", "(", "1", ".", "5", ",", " ", "7", " ", "/", " ", "2", ",",
      " ", "1", "0", " ", "%", " ", "4", ")", ";">>

\* 1 + 2 * 3;
PrecedenceScript ==
    <<"1", " ", "+", " ", "2", " ", "*", " ", "3", ";">>

\* 2 ^ 3 ^ 2;
ChainScript ==
    <<"2", " ", "^", " ", "3", " ", "^", " ", "2", ";">>

\* // note\nx :: 1; print(x);
CommentScript ==
    <<"/", "/", " ", "n", "o", "t", "e", "\n", "x", " ", ":", ":", " ", "1", ";", " ", "p",
      "r", "i", "n", "t", "(", "x", ")", ";">>

\* print(#);
BadCharacterScript ==
    <<"p", "r", "i", "n", "t", "(", "#", ")", ";">>

Scripts ==
    {ScopingScript,
     ClosureScript,
     CallerScopeScript,
     CallbackScript,
     RecursionScript,
     CountingRecursionScript,
     RecursiveArgumentScript,
     InvocationScopeScript,
     IfKindsScript,
     IfValueScript,
     NoSpaceAssignmentScript,
     UnclosedBlockScript,
     UnclosedFunctionBodyScript,
     UnclosedCallBodyScript,
     StructTypesScript,
     ParameterListWithoutBodyScript,
     TruncatedStructScript,
     TruncatedAssignmentScript,
     OrderScript,
     FailingStatementScript,
     LastValueScript,
     EmptyBlockScript,
     LastAssignmentScript,
     LastAliasScript,
     LastPrintScript,
     LastEmptyStatementScript,
     StrayCloseBlockScript,
     HelloScript,
     UntypedHelloScript,
     TypedAliasScript,
     TypedAssignmentScript,
     UndefinedScript,
     IfScript,
     IfArityScript,
     WhileScript,
     StructScript,
     ArityScript,
     NotFunctionScript,
     UnknownFunctionScript,
     OperatorTypeScript,
     ArgumentsScript,
     PrintScript,
     PrecedenceScript,
     ChainScript,
     CommentScript,
     BadCharacterScript}

Init == InitWith(Scripts)

Spec == Init /\ [][Next]_vars

\* interp runs the evaluation to completion: an evaluation step that can be taken
\* is eventually taken
FairSpec == Spec /\ WF_vars(Evaluate)

(***************************************************************************)
(* Scripts with a two-operator expression a op1 b op2 c                    *)
(***************************************************************************)
\* the largest operand digit of the expression scripts
MaxOperand == 3

OperandChars == {DigitSeq[i + 1] : i \in 1..MaxOperand}

OperatorChars == {"+", "-", "*", "/", "%", "^"}

Expression(a, op1, b, op2, c) == <<a, " ", op1, " ", b, " ", op2, " ", c>>

\* where the expression stands: e; or x = e; or print(e);
ExpressionContexts == {"statement", "assignment", "argument"}

ContextPrefix(context) ==
    CASE context = "statement" -> <<>>
      [] context = "assignment" -> <<"x", " ", "=", " ">>
      [] context = "argument" -> <<"p", "r", "i", "n", "t", "(">>

ContextSuffix(context) == IF context = "argument" THEN <<")", ";">> ELSE <<";">>

ExpressionScript(context, a, op1, b, op2, c) ==
    ContextPrefix(context) \o Expression(a, op1, b, op2, c) \o ContextSuffix(context)

ExpressionScripts ==
    {ExpressionScript(context, a, op1, b, op2, c) :
        context \in ExpressionContexts, a \in OperandChars, op1 \in OperatorChars,
        b \in OperandChars, op2 \in OperatorChars, c \in OperandChars}

ExprSpec == InitWith(Scripts \cup ExpressionScripts) /\ [][Next]_vars

(***************************************************************************)
(* Short sources for the tokenizer                                         *)
(***************************************************************************)
\* the longest source of the tokenizer scripts
MaxLexLen == 4

\* the longest string-literal body of the string scripts
MaxStringLen == 4

SeqsUpTo(S, n) == UNION {[1..k -> S] : k \in 0..n}

LexAlphabet == {"a", ":", "/", "=", " ", "\n"}

LexScripts == SeqsUpTo(LexAlphabet, MaxLexLen)

StringAlphabet == {"a", "\"", "\\", ";"}

\* an opening quote and what follows it
StringScripts == {<<"\"">> \o body : body \in SeqsUpTo(StringAlphabet, MaxStringLen)}

LexSpec == InitWith(Scripts \cup LexScripts \cup StringScripts) /\ [][Next]_vars

(***************************************************************************)
(* Properties                                                              *)
(***************************************************************************)
\* the closure ids of a scope chain, from the closure id up to the root
RECURSIVE ScopeChain(_, _)
ScopeChain(cls, id) ==
    IF cls[id + 1].parent_id = NoParent THEN {id}
    ELSE {id} \cup ScopeChain(cls, cls[id + 1].parent_id)

NameX == <<"x">>

\* the variables of closure i, apart from the name
OtherVariables(cls, i, name) ==
    [n \in DOMAIN cls[i].variables \ {name} |-> cls[i].variables[n]]

\* the step completes an Assignment or an Alias
BindingStep == AssignmentReturn \/ AliasReturn

\* C1: an Assignment or Alias binds its name to the value in the closure of the
\* current stack frame and nowhere else: every other closure, every other name of
\* that closure and its parent link are left as they were, so a binding of the same
\* name in an enclosing scope is shadowed, not overwritten; the script
\* { x = 1; { x = 2; }; print(x); } prints 1.
AssignmentBindsCurrentClosureOnly ==
    /\ [][BindingStep =>
            LET cur == frames[1].closure_id + 1 IN
            /\ DOMAIN closures' = DOMAIN closures
            /\ \A i \in DOMAIN closures : i # cur => closures'[i] = closures[i]
            /\ kont[1].name \in DOMAIN closures'[cur].variables
            /\ closures'[cur].variables[kont[1].name] = ctl.res.value
            /\ OtherVariables(closures', cur, kont[1].name)
                   = OtherVariables(closures, cur, kont[1].name)
            /\ closures'[cur].parent_id = closures[cur].parent_id
            /\ closures'[cur].creator = closures[cur].creator]_vars
    /\ [](src = ScopingScript /\ pc = "done"
            => result.res.ok /\ output = <<<<"1">>>>)

\* the inner block of the scoping script has bound x to 2 while the enclosing block
\* still binds x to 1
InnerBindingShadowsOuter ==
    /\ src = ScopingScript
    /\ \E i \in DOMAIN closures :
          /\ closures[i].parent_id # NoParent
          /\ NameX \in DOMAIN closures[i].variables
          /\ closures[i].variables[NameX] = InterpNumber(Rat(2, 1))
          /\ NameX \in DOMAIN closures[closures[i].parent_id + 1].variables
          /\ closures[closures[i].parent_id + 1].variables[NameX] = InterpNumber(Rat(1, 1))

\* the Function value whose body is being evaluated, innermost first; <<>> outside
\* every function body
RECURSIVE InnermostCall(_)
InnermostCall(K) ==
    IF K = <<>> THEN <<>>
    ELSE IF K[1].k = "call" THEN <<K[1].callee>>
    ELSE InnermostCall(Tail(K))

NameZ == <<"z">>

\* the name is bound by a closure created inside the running function body
BoundInsideBody(name, callee) ==
    \E id \in ScopeChain(closures, frames[1].closure_id)
               \ ScopeChain(closures, callee.closure_id) :
        name \in DOMAIN closures[id + 1].variables

\* C2: a function resolves its free variables through the closure captured at its
\* declaration, never through the caller's scope: the captured closure is a child
\* of the declaring scope; while the body runs the captured closure is on the scope
\* chain of the current frame, and a variable the body does not bind itself reads
\* as the captured closure's chain gives it; a function called from a block that
\* rebinds x prints the declaration site's x, a callback prints the binding of its
\* declaration site, and a name only the caller binds is not found.
FunctionUsesCapturedClosure ==
    /\ [][EvalFunctionDeclaration =>
            /\ ctl'.res.value.closure_id = Len(closures)
            /\ closures'[Len(closures) + 1].parent_id = frames[1].closure_id]_vars
    /\ [](pc = "evaluate" /\ ctl.mode = "eval" /\ InnermostCall(kont) # <<>> =>
            LET callee == InnermostCall(kont)[1] IN
            /\ closures[callee.closure_id + 1].creator = "FunctionDeclaration"
            /\ callee.closure_id \in ScopeChain(closures, frames[1].closure_id)
            /\ (ctl.node.kind = "Variable" /\ ~BoundInsideBody(ctl.node.name, callee)
                  => get_variable(closures, frames, ctl.node.name)
                      = get_variable_of_closure(closures, ctl.node.name, callee.closure_id)))
    /\ [](pc = "done" =>
            /\ src = ClosureScript => result.res.ok /\ output = <<<<"1">>>>
            /\ src = CallbackScript => result.res.ok /\ output = <<<<"5">>>>
            /\ src = CallerScopeScript =>
                  result.res = RErr("Unable to find variable", NameZ) /\ output = <<>>)

\* the body of f reads x as 1 while the block that called f binds x to 2
BodyReadsDeclarationSiteBinding ==
    /\ src = ClosureScript
    /\ Evaluating("Variable")
    /\ InnermostCall(kont) # <<>>
    /\ ctl.node.name = NameX
    /\ get_variable(closures, frames, NameX) = ROk(InterpNumber(Rat(1, 1)))
    /\ \E i \in DOMAIN closures :
          /\ NameX \in DOMAIN closures[i].variables
          /\ closures[i].variables[NameX] = InterpNumber(Rat(2, 1))

\* the scripts whose function calls itself unconditionally
UnconditionalRecursion == {RecursionScript, CountingRecursionScript}

StackOverflow == RErr("Stack overflow!", <<>>)

\* the number of function bodies being evaluated
RECURSIVE CallDepth(_)
CallDepth(K) ==
    IF K = <<>> THEN 0
    ELSE (IF K[1].k = "call" THEN 1 ELSE 0) + CallDepth(Tail(K))

\* an error is being returned in a run of an unconditionally recursive script
Unwinding ==
    /\ src \in UnconditionalRecursion
    /\ pc = "evaluate"
    /\ ctl.mode = "ret"
    /\ ~ctl.res.ok

FrameDepthWithinStackSize ==
    frames # <<>> => frames[1].index <= stack_size

\* the context of an expression script, "none" for any other source
ContextOf(s) ==
    IF \E context \in ExpressionContexts :
          /\ Len(s) = Len(ContextPrefix(context)) + 9 + Len(ContextSuffix(context))
          /\ SubSeq(s, 1, Len(ContextPrefix(context))) = ContextPrefix(context)
    THEN CHOOSE context \in ExpressionContexts :
          /\ Len(s) = Len(ContextPrefix(context)) + 9 + Len(ContextSuffix(context))
          /\ SubSeq(s, 1, Len(ContextPrefix(context))) = ContextPrefix(context)
    ELSE "none"

\* the k-th character of the expression of an expression script
ExprChar(s, k) == s[Len(ContextPrefix(ContextOf(s))) + k]

IsExpressionScript(s) ==
    /\ ContextOf(s) # "none"
    /\ {ExprChar(s, 1), ExprChar(s, 5), ExprChar(s, 9)} \subseteq OperandChars
    /\ {ExprChar(s, 3), ExprChar(s, 7)} \subseteq OperatorChars
    /\ s = ExpressionScript(ContextOf(s), ExprChar(s, 1), ExprChar(s, 3), ExprChar(s, 5),
                             ExprChar(s, 7), ExprChar(s, 9))

\* the precedence table
TablePrecedence(op) ==
    CASE op \in {"+", "-"} -> 1
      [] op \in {"*", "/", "%"} -> 2
      [] op = "^" -> 3

TableOperator(op) ==
    CASE op = "+" -> "Add"
      [] op = "-" -> "Sub"
      [] op = "*" -> "Mult"
      [] op = "/" -> "Div"
      [] op = "%" -> "Mod"
      [] op = "^" -> "Pow"

OperandNode(c) == [kind |-> "NumberValue", value |-> Rat(DigitVal(c), 1)]

OperatorNode(lhs, op, rhs) ==
    [kind |-> "OperatorCall", lhs |-> lhs, rhs |-> rhs, operator |-> TableOperator(op)]

\* a op1 (b op2 c)
RightNested(s) ==
    OperatorNode(OperandNode(ExprChar(s, 1)), ExprChar(s, 3),
                 OperatorNode(OperandNode(ExprChar(s, 5)), ExprChar(s, 7),
                              OperandNode(ExprChar(s, 9))))

\* (a op1 b) op2 c
LeftNested(s) ==
    OperatorNode(OperatorNode(OperandNode(ExprChar(s, 1)), ExprChar(s, 3),
                              OperandNode(ExprChar(s, 5))),
                 ExprChar(s, 7), OperandNode(ExprChar(s, 9)))

\* the program of an expression script whose expression parses as the tree
ProgramOf(s, tree) ==
    [kind |-> "Block",
     block |-> [statements |->
        <<CASE ContextOf(s) = "statement" -> tree
            [] ContextOf(s) = "assignment" ->
                  [kind |-> "Assignment", to |-> NameX, from |-> tree]
            [] ContextOf(s) = "argument" ->
                  [kind |-> "FunctionCall", name |-> NamePrint, arguments |-> <<tree>>,
                   body |-> <<>>]>>]]

\* the value of a tree of numbers
RECURSIVE ValueOf(_)
ValueOf(tree) ==
    IF tree.kind = "NumberValue" THEN tree.value
    ELSE apply_number_number_operation(ValueOf(tree.lhs), ValueOf(tree.rhs),
                                       tree.operator).value

\* the run of an expression script has ended with the tree's value: as the result of
\* the statement, as the binding of x, or as the printed line
Yields(s, tree) ==
    /\ result.stage = "interp"
    /\ result.res.ok
    /\ CASE ContextOf(s) = "statement" -> result.res.value = InterpNumber(ValueOf(tree))
         [] ContextOf(s) = "assignment" ->
               closures[2].variables = (NameX :> InterpNumber(ValueOf(tree)))
         [] ContextOf(s) = "argument" -> output = <<NumberToString(ValueOf(tree))>>

Parsed == pc \in {"interp", "evaluate", "done"} \/ result.stage = "parse"

\* C5: for operands a, b, c and operators op1, op2 with precedence(op2) >
\* precedence(op1) in the table (+ - = 1, * / % = 2, ^ = 3), a op1 b op2 c parses
\* as a op1 (b op2 c), as a statement, an assignment right-hand side or a call
\* argument, and evaluates to that tree's value; 1 + 2 * 3 evaluates to 7.
HigherPrecedenceBindsTighter ==
    /\ IsExpressionScript(src)
          /\ TablePrecedence(ExprChar(src, 7)) > TablePrecedence(ExprChar(src, 3))
          /\ Parsed
        => /\ ast.ok
           /\ ast.node = ProgramOf(src, RightNested(src))
           /\ pc = "done" => Yields(src, RightNested(src))
    /\ src = PrecedenceScript /\ pc = "done"
        => result.res = ROk(InterpNumber(Rat(7, 1)))

\* 1 + 2 * 3; has been evaluated to 7
PrecedenceScriptYieldsSeven ==
    /\ src = PrecedenceScript
    /\ pc = "done"
    /\ ast.node = ProgramOf(src, RightNested(src))
    /\ result.res = ROk(InterpNumber(Rat(7, 1)))

\* C6: a op1 b op2 c with precedence(op2) <= precedence(op1) parses successfully
\* as (a op1 b) op2 c, as a statement, an assignment right-hand side and a call
\* argument, and evaluates to that tree's value; 2 ^ 3 ^ 2 evaluates to 64.
EqualOrLowerPrecedenceChainsLeft ==
    /\ IsExpressionScript(src)
          /\ TablePrecedence(ExprChar(src, 7)) <= TablePrecedence(ExprChar(src, 3))
          /\ Parsed
        => /\ ast.ok
           /\ ast.node = ProgramOf(src, LeftNested(src))
           /\ pc = "done" => Yields(src, LeftNested(src))
    /\ src = ChainScript /\ pc = "done"
        => result.res = ROk(InterpNumber(Rat(64, 1)))

\* the longest run of whitespace inserted at a token boundary
MaxRun == 2

\* runs of space, tab and newline characters
WhitespaceRuns == SeqsUpTo({" ", "\t", "\n"}, MaxRun) \ {<<>>}

\* the source with the run inserted after its first q characters
InsertAt(s, q, run) == SubSeq(s, 1, q) \o run \o SubSeq(s, q + 1, Len(s))

\* the offset of the first character after offset q that is not whitespace
RECURSIVE SkipWhitespace(_, _)
SkipWhitespace(s, q) ==
    IF q < Len(s) /\ s[q + 1] \in Whitespace THEN SkipWhitespace(s, q + 1) ELSE q + 1

\* the offsets of the last characters of the tokens of s, found from the token texts
RECURSIVE TokenEnds(_, _, _)
TokenEnds(s, toks, q) ==
    IF toks = <<>> THEN <<>>
    ELSE <<SkipWhitespace(s, q) + Len(Head(toks).text) - 1>>
         \o TokenEnds(s, Tail(toks), SkipWhitespace(s, q) + Len(Head(toks).text) - 1)

\* the insertion points between token k and token k + 1 of the tokenized source
Boundary(k) ==
    LET ends == TokenEnds(src, tokens.tokens, 0)
    IN  ends[k] .. (ends[k + 1] - Len(tokens.tokens[k + 1].text))

KindsAndTexts(toks) == [i \in 1..Len(toks) |-> <<toks[i].token_type, toks[i].text>>]

\* the tokenizer has returned the tokens of src
Tokenized == pc = "parse" /\ tokens.ok

\* inserting the run after q characters of src leaves the token kinds and texts alone
SameTokensWith(q, run) ==
    /\ tokenize(InsertAt(src, q, run)).ok
    /\ KindsAndTexts(tokenize(InsertAt(src, q, run)).tokens) = KindsAndTexts(tokens.tokens)

\* C7 as stated: for every source that tokenizes, inserting a run of space, tab or
\* newline characters at a boundary between two adjacent tokens gives the same
\* token kinds and the same token texts.
WhitespaceAtAnyBoundaryKeepsTokens ==
    Tokenized =>
        \A k \in 1..(Len(tokens.tokens) - 1) : \A q \in Boundary(k) :
            \A run \in WhitespaceRuns : SameTokensWith(q, run)

\* the run may be inserted after q characters, between token k and its successor:
\* not directly after a Symbol token, whose `:` must be followed by a letter, and
\* directly after a Comment token, which runs to the end of its line, only when the
\* run begins with a newline
InsertionKeepsLeftToken(k, q, run) ==
    LET left == tokens.tokens[k] IN
    /\ left.token_type # "Symbol"
    /\ left.token_type = "Comment" /\ q = TokenEnds(src, tokens.tokens, 0)[k]
          => Head(run) = "\n"

\* C7, amended: for every source that tokenizes, inserting a run of space, tab or
\* newline characters at a boundary between two adjacent tokens gives the same
\* token kinds and texts, unless the insertion is directly after a Symbol token or,
\* with a run that does not begin with a newline, directly after a Comment token.
WhitespaceAtBoundaryKeepsTokens ==
    Tokenized =>
        \A k \in 1..(Len(tokens.tokens) - 1) : \A q \in Boundary(k) :
            \A run \in WhitespaceRuns :
                InsertionKeepsLeftToken(k, q, run) => SameTokensWith(q, run)

\* a source of several tokens with whitespace between them has been tokenized, and
\* a run inserted into that gap leaves its tokens alone
WhitespaceInsertedInGap ==
    /\ Tokenized
    /\ Len(tokens.tokens) >= 3
    /\ \E k \in 1..(Len(tokens.tokens) - 1) :
          /\ Cardinality(Boundary(k)) > 1
          /\ \A q \in Boundary(k) : SameTokensWith(q, <<"\t", "\n">>)

\* the offset of the first quote at or after offset i that no backslash escapes; 0
\* when the source ends first
RECURSIVE ClosingQuote(_, _)
ClosingQuote(s, i) ==
    IF i > Len(s) THEN 0
    ELSE IF s[i] = "\\" THEN ClosingQuote(s, i + 2)
    ELSE IF s[i] = "\"" THEN i
    ELSE ClosingQuote(s, i + 1)

\* the source opens with a string literal and the tokenizer has run
LiteralTokenized == src # <<>> /\ src[1] = "\"" /\ pc # "tokenize"

\* C8: in a string literal the character after a backslash is consumed and never
\* ends the string: when the source opens with a quote, its first token is one
\* String token that ends at the first unescaped quote, with the backslashes kept
\* verbatim in its text and in the parsed string value, and the rest of the source
\* is tokenized after it; when the source ends before that quote (right after a
\* backslash included) tokenize fails with a TokenizationError.
StringEndsAtFirstUnescapedQuote ==
    LiteralTokenized =>
        IF ClosingQuote(src, 2) = 0
        THEN /\ ~tokens.ok
             /\ pc = "done"
             /\ result.stage = "tokenize"
             /\ result.res.desc = "Invalid end of input for \"string\""
        ELSE LET end == ClosingQuote(src, 2)
                 rest == tokenize(SubSeq(src, end + 1, Len(src)))
             IN  /\ tokens.ok = rest.ok
                 /\ tokens.ok =>
                       /\ tokens.tokens[1].token_type = "StaticString"
                       /\ tokens.tokens[1].text = SubSeq(src, 1, end)
                       /\ KindsAndTexts(Tail(tokens.tokens)) = KindsAndTexts(rest.tokens)
                       /\ parse_string(tokens.tokens, 1).node
                            = [kind |-> "StringValue", value |-> SubSeq(src, 2, end - 1)]

\* a literal holding an escaped quote has been tokenized as one String token
EscapedQuoteInsideString ==
    /\ LiteralTokenized
    /\ tokens.ok
    /\ Len(tokens.tokens) = 1
    /\ \E i \in 2..(Len(src) - 2) : src[i] = "\\" /\ src[i + 1] = "\""
    /\ tokens.tokens[1].text = src

NameMessage == <<"m", "e", "s", "s", "a", "g", "e">>

\* Hello " World
HelloLine == <<"H", "e", "l", "l", "o", " ", "\"", " ", "W", "o", "r", "l", "d">>

\* C9: the script message :String :: "Hello \" World"; print(message); passes all
\* three stages: it tokenizes into 7 tokens, parses into a root block holding an
\* Alias node followed by a FunctionCall node, and its evaluation prints exactly
\* one line, Hello " World.
HelloScriptPassesAllStages ==
    src = HelloScript /\ pc = "done" =>
        /\ tokens.ok
        /\ Len(tokens.tokens) = 7
        /\ ast.ok
        /\ Len(ast.node.block.statements) = 2
        /\ ast.node.block.statements[1].kind = "Alias"
        /\ ast.node.block.statements[1].to = NameMessage
        /\ ast.node.block.statements[2].kind = "FunctionCall"
        /\ result.stage = "interp"
        /\ result.res.ok
        /\ output = <<HelloLine>>

\* the name is bound by a closure of the current frame's scope chain
BoundOnChain(name) ==
    \E id \in ScopeChain(closures, frames[1].closure_id) :
        name \in DOMAIN closures[id + 1].variables

NameDoesNotExist == <<"d", "o", "e", "s", "N", "o", "t", "E", "x", "i", "s", "t">>

\* the result is the error that names the variable
UnableToFind(res, name) ==
    /\ ~res.ok
    /\ ~res.panic
    /\ res.desc = "Unable to find variable"
    /\ res.name = name

\* C10: reading a variable that no closure on the chain from the current frame's
\* closure up to the root binds, as an expression or as the name of a call, fails
\* with the InterpError that names the variable, never with Void or another value; the error reaches the caller of the evaluation
\* with nothing evaluated, bound or printed after it, so print(doesNotExist); fails
\* naming doesNotExist and prints nothing.
UndefinedVariableReadFails ==
    /\ [][Evaluating("Variable") /\ ~BoundOnChain(ctl.node.name) =>
            /\ ctl'.mode = "ret"
            /\ UnableToFind(ctl'.res, ctl.node.name)
            /\ output' = output]_vars
    /\ [][DispatchLookup /\ ~BoundOnChain(CallNode.name) =>
            /\ ctl'.mode = "ret"
            /\ UnableToFind(ctl'.res, CallNode.name)
            /\ output' = output]_vars
    /\ [][pc = "evaluate" /\ ctl.mode = "ret" /\ ~ctl.res.ok =>
            /\ ctl' = ctl
            /\ closures' = closures
            /\ output' = output]_vars
    /\ [](src = UndefinedScript /\ pc = "done" =>
            /\ result.stage = "interp"
            /\ UnableToFind(result.res, NameDoesNotExist)
            /\ output = <<>>)

\* print(doesNotExist); has ended with the error naming doesNotExist
UndefinedReadReported ==
    /\ src = UndefinedScript
    /\ pc = "done"
    /\ UnableToFind(result.res, NameDoesNotExist)
    /\ output = <<>>

NameCount == <<"c", "o", "u", "n", "t">>

\* the scripts that open with a type-annotated binding of count to 1
TypedBindingKind(s) ==
    CASE s = TypedAliasScript -> "Alias"
      [] s = TypedAssignmentScript -> "Assignment"
      [] OTHER -> "none"

\* C11: a type-annotated binding statement, tokenized as identifier, `:` symbol,
\* type name, assignment token, expression, `;`, parses successfully:
\* name :Type :: expr; yields an Alias node and name :Type = expr; yields an
\* Assignment node, each binding the name to the parsed expression.
TypedBindingParses ==
    TypedBindingKind(src) # "none" /\ Parsed =>
        /\ tokens.tokens[2].token_type = "Symbol"
        /\ ast.ok
        /\ ast.node.block.statements[1]
             = [kind |-> TypedBindingKind(src), to |-> NameCount, from |-> OperandNode("1")]

\* the number of block and function-call evaluations that have started and not ended
RECURSIVE OpenEvaluations(_)
OpenEvaluations(K) ==
    IF K = <<>> THEN 0
    ELSE (IF K[1].k \in {"block", "call"} THEN 1 ELSE 0) + OpenEvaluations(Tail(K))

\* C12: whenever the evaluation of a block or a function call ends, by returning a
\* value or by returning an InterpError, the current frame is again the frame that
\* was current before it started: the depth of the current frame is the number of
\* block and call evaluations still open, and after the evaluation has returned,
\* with a value or an error, the current frame is the base frame of depth 0.
FramesRestoredOnEveryExit ==
    pc \in {"evaluate", "done"} /\ frames # <<>> /\ ~result.res.panic =>
        /\ frames[1].index = OpenEvaluations(kont)
        /\ pc = "done" => frames[1].index = 0

\* C13: a function call binds its arguments in a closure that belongs to that
\* invocation alone and whose parent is the function's captured closure, not in the
\* captured closure itself, so the closure captured by a FunctionDeclaration never
\* holds a binding and no invocation overwrites the argument another one sees:
\* in f :: (n) { if(n) { f(n - 1); }; print(n); }; f(1); the inner invocation
\* prints 0 and, after it has returned, the outer one prints its own argument 1.
ArgumentsBoundPerInvocation ==
    /\ \A i \in DOMAIN closures :
          closures[i].creator = "FunctionDeclaration" => DOMAIN closures[i].variables = {}
    /\ src = RecursiveArgumentScript /\ pc = "done" =>
          result.res.ok /\ output = <<<<"0">>, <<"1">>>>

\* the step may execute a block: a Block node, the body of an if, a function body
BlockStep == EvalBlock \/ CallIf \/ CallFunction

\* the closure id of the frame that is current when the step's evaluate_block starts
ThenCurrentClosure ==
    IF frames'[1].closure_id = Len(closures) THEN frames'[2].closure_id
    ELSE frames'[1].closure_id

NameY == <<"y">>

\* C14: every execution of a block allocates a closure id that was never used
\* before, with the then-current frame's closure as parent: the closure table only
\* grows, a block execution appends one empty closure whose parent is that frame's
\* closure and leaves every parent link as it was; so a variable assigned in a
\* function body during one invocation is not visible in another invocation: in
\* f :: (a) { if(a) { print(y); }; y = 1; }; f(0); f(1); the second invocation does
\* not find the y the first one assigned.
BlockExecutionAllocatesFreshClosure ==
    /\ [][Len(closures') >= Len(closures)]_vars
    /\ [][EvalBlock => Len(closures') = Len(closures) + 1]_vars
    /\ [][BlockStep /\ Len(closures') # Len(closures) =>
            /\ Len(closures') = Len(closures) + 1
            /\ closures'[Len(closures')].variables = EmptyVariables
            /\ closures'[Len(closures')].parent_id = ThenCurrentClosure
            /\ \A i \in DOMAIN closures :
                  closures'[i].parent_id = closures[i].parent_id]_vars
    /\ [](src = InvocationScopeScript /\ pc = "done" =>
            UnableToFind(result.res, NameY) /\ output = <<>>)

\* the second invocation has failed to find y although the body closure of the
\* first invocation still binds it
SecondInvocationMissesFirstBinding ==
    /\ src = InvocationScopeScript
    /\ pc = "done"
    /\ UnableToFind(result.res, NameY)
    /\ \E i \in DOMAIN closures :
          /\ closures[i].creator = "FunctionCall"
          /\ NameY \in DOMAIN closures[i].variables

\* one value of every kind, zero and nonzero Numbers among them
ValueKinds ==
    {InterpVoid, InterpBoolean(TRUE), InterpBoolean(FALSE), InterpString(<<>>),
     InterpString(<<"s">>), InterpStruct(0), InterpFunction(0, 1),
     InterpNumber(Rat(0, 1)), InterpNumber(Rat(1, 1)), InterpNumber(Rat(0 - 1, 2))}

NonzeroNumber(v) == v.t = "InterpNumber" /\ v.value # Rat(0, 1)

\* an InterpError came out of the evaluation
InterpErrorResult(res) == ~res.ok /\ ~res.panic

\* the step starts the evaluation of the if's body under the call's activations
BodyStarted ==
    /\ Len(closures') = Len(closures) + 1
    /\ \/ /\ kont' = <<[k |-> "block", statements |-> CallNode.body[1].statements,
                         next |-> 1]>> \o CallKont
          /\ Len(frames') = Len(frames) + 1
       \/ /\ ctl' = Return(RErr("Stack overflow!", <<>>))
          /\ frames[1].index >= stack_size

\* C15: an if call with one argument and an attached body evaluates the body once and
\* returns the body's value when the argument is a nonzero Number, and returns Void
\* without evaluating the body for every other argument value (zero, Void, Boolean,
\* String, Struct, Function); with an argument count other than one, or with no
\* attached body, it fails with an InterpError.
IfEvaluatesBodyOnNonzeroNumber ==
    /\ [](\A v \in ValueKinds : evals_to_true(v) <=> NonzeroNumber(v))
    /\ [][CallIf =>
            IF Len(CallArgs) # 1 \/ CallNode.body = <<>>
            THEN /\ ctl'.mode = "ret"
                 /\ InterpErrorResult(ctl'.res)
                 /\ kont' = CallKont
                 /\ closures' = closures
            ELSE IF NonzeroNumber(CallArgs[1])
            THEN BodyStarted
            ELSE /\ ctl' = Return(ROk(InterpVoid))
                 /\ kont' = CallKont
                 /\ closures' = closures
                 /\ frames' = frames]_vars
    /\ [](src = IfValueScript /\ pc = "done" =>
            /\ result.res = ROk(InterpNumber(Rat(7, 1)))
            /\ output = <<<<"1">>>>)
    /\ [](src = IfKindsScript /\ pc = "done" =>
            result.res = ROk(InterpVoid) /\ output = <<>>)
    /\ [](src = IfScript /\ pc = "done" =>
            InterpErrorResult(result.res) /\ output = <<<<"a">>>>)
    /\ [](src = IfArityScript /\ pc = "done" =>
            InterpErrorResult(result.res) /\ output = <<>>)

\* if(2) { print(1); 7; }; has run its body once and returned the body's value
IfBodyValueReturned ==
    /\ src = IfValueScript
    /\ pc = "done"
    /\ result.res = ROk(InterpNumber(Rat(7, 1)))
    /\ output = <<<<"1">>>>

NameG == <<"g">>

UnableToFindFunction(res, name) ==
    /\ ~res.ok
    /\ ~res.panic
    /\ res.desc = "Unable to find function"
    /\ res.name = name

\* C16: a call whose name is not if, while or print fails with the "unable to find
\* function <name>" InterpError both when the name resolves to a value that is not a
\* Function (x = 1; x();) and when the name resolves to no variable at all (g();).
UnresolvedCallFailsWithUnableToFindFunction ==
    /\ src = NotFunctionScript /\ pc = "done" => UnableToFindFunction(result.res, NameX)
    /\ src = UnknownFunctionScript /\ pc = "done" => UnableToFindFunction(result.res, NameG)

\* the offset of the first newline at or after offset i; 0 when the source ends first
RECURSIVE NextNewline(_, _)
NextNewline(s, i) ==
    IF i > Len(s) THEN 0
    ELSE IF s[i] = "\n" THEN i
    ELSE NextNewline(s, i + 1)

\* the source opens with a slash and the tokenizer has run
SlashTokenized == src # <<>> /\ src[1] = "/" /\ pc # "tokenize"

\* tokenize failed with the given description
TokenizeFailedWith(desc) ==
    /\ ~tokens.ok
    /\ pc = "done"
    /\ result.stage = "tokenize"
    /\ result.res.desc = desc

\* the first token has the kind and the text, and the tokens after it are those of
\* the source from offset from on
FirstTokenThenRest(kind, text, from) ==
    /\ tokens.ok = tokenize(SubSeq(src, from, Len(src))).ok
    /\ tokens.ok =>
          /\ tokens.tokens[1].token_type = kind
          /\ tokens.tokens[1].text = text
          /\ KindsAndTexts(Tail(tokens.tokens))
               = KindsAndTexts(tokenize(SubSeq(src, from, Len(src))).tokens)

\* the source opens with //: one Comment token up to the next newline, or a failure
\* when no newline follows
CommentUpToNewline(nl) ==
    IF nl = 0
    THEN TokenizeFailedWith("Invalid end of input for // comment")
    ELSE FirstTokenThenRest("Comment", SubSeq(src, 1, nl - 1), nl)

VariableAssignTextIsExact ==
    /\ pc # "tokenize" /\ tokens.ok =>
          \A i \in DOMAIN tokens.tokens :
              tokens.tokens[i].token_type = "VariableAssignment" =>
                  tokens.tokens[i].text \in {<<"=">>, <<":", "=">>}
    /\ src = NoSpaceAssignmentScript /\ pc # "tokenize" =>
          /\ tokens.ok
          /\ KindsAndTexts(tokens.tokens)
               = <<<<"Alphanumeric", <<"x">>>>, <<"VariableAssignment", <<"=">>>>,
                   <<"Numeric", <<"1">>>>, <<"EndOfStatement", <<";">>>>>>

\* a source whose last block is opened by { and never closed
UnclosedScripts == {UnclosedBlockScript, UnclosedFunctionBodyScript, UnclosedCallBodyScript}

\* C19: only the root block may be ended by the end of the input: when the } of a
\* block statement, a function body or a body attached to a call is missing before
\* the tokens run out, parse fails with a ParsingError and returns no Ast.
UnclosedBlockIsParsingError ==
    src \in UnclosedScripts /\ Parsed =>
        /\ ~ast.ok
        /\ ~ast.panic
        /\ pc = "done"
        /\ result.stage = "parse"

NameA == <<"a">>

NameB == <<"b">>

NameInt == <<"i", "n", "t">>

NameStr == <<"s", "t", "r">>

\* C20: parsing a struct declaration { f1 :T1 ... fn :Tn } yields a StructDeclaration
\* whose field-name list is [f1, ..., fn] and whose type-name list is [T1, ..., Tn],
\* both of length n and in declaration order: p :: { a :int b :str }; declares the
\* fields a, b with the types int, str.
StructDeclarationListsFieldsAndTypes ==
    src = StructTypesScript /\ Parsed =>
        /\ ast.ok
        /\ ast.node.block.statements[1].from
             = [kind |-> "StructDeclaration", fields |-> <<NameA, NameB>>,
                types |-> <<NameInt, NameStr>>]

\* a source whose declaration or assignment is cut short
TruncatedScripts ==
    {ParameterListWithoutBodyScript, TruncatedStructScript, TruncatedAssignmentScript}

\* C21: for every token sequence tokenize can produce, parse returns an Ast or a
\* ParsingError carrying the offending token and never aborts on an internal
\* assertion or unwrap: not for a function parameter list that no { follows, nor for
\* a struct declaration or an assignment cut short by the end of the input, which
\* are ParsingErrors.
ParseNeverAborts ==
    Parsed =>
        /\ ~ast.panic
        /\ src \in TruncatedScripts =>
              /\ ~ast.ok
              /\ result.stage = "parse"
              /\ ~result.res.panic

\* the scripts whose last statement is an Assignment, an Alias, a print call, an
\* empty statement or an empty block, after a statement whose value is 7
VoidLastStatementScripts ==
    {EmptyBlockScript, LastAssignmentScript, LastAliasScript, LastPrintScript,
     LastEmptyStatementScript}

\* a statement of a block has failed and the failure is with the block
StatementFailed == Returning("block") /\ ~ctl.res.ok

\* C22: evaluating a block evaluates its statements one at a time in source order
\* (each step of the loop takes the statement after the one taken before), stops at
\* the first statement that fails without evaluating a later one (the failure leaves
\* the block at once), and otherwise returns the value of the last statement, or Void
\* for an empty block; an Assignment, an Alias, a print call or an empty statement
\* as last statement gives Void.
BlockEvaluatesStatementsInOrder ==
    /\ [][BlockNext =>
            /\ ctl'.mode = "eval"
            /\ ctl'.node = kont[1].statements[kont[1].next]
            /\ kont'[1].next = kont[1].next + 1
            /\ kont'[1].statements = kont[1].statements
            /\ Tail(kont') = Tail(kont)]_vars
    /\ [][EvalBlock /\ Len(frames') > Len(frames) => kont'[1].next = 1]_vars
    /\ [][StatementFailed =>
            /\ kont' = Tail(kont)
            /\ ctl' = ctl
            /\ output' = output
            /\ closures' = closures]_vars
    /\ [][BlockEnd /\ frames # <<>> =>
            /\ ctl'.res = ctl.res
            /\ kont[1].statements = <<>> => ctl.res = ROk(InterpVoid)]_vars
    /\ [](src = OrderScript /\ pc = "done" =>
            result.res.ok /\ output = <<<<"1">>, <<"2">>, <<"3">>>>)
    /\ [](src = FailingStatementScript /\ pc = "done" =>
            UnableToFind(result.res, NameY) /\ output = <<<<"1">>>>)
    /\ [](src = LastValueScript /\ pc = "done" =>
            result.res = ROk(InterpNumber(Rat(7, 1))))
    /\ [](src \in VoidLastStatementScripts /\ pc = "done" => result.res = ROk(InterpVoid))

\* print(1); y; print(2); has stopped at the failing y after the first print
LaterStatementNotEvaluated ==
    /\ src = FailingStatementScript
    /\ pc = "done"
    /\ UnableToFind(result.res, NameY)
    /\ output = <<<<"1">>>>

\* no InterpError is on its way out of the evaluation
NoFailure == ~(ctl.mode = "ret" /\ ~ctl.res.ok)

\* the frame interp starts the evaluation on
BaseFrame == NewStackFrame("Block", 0)

\* the step leaves the frame chain alone, pushes one frame or two (a call's frame and
\* its body's) on the chain, or removes the current frame
PushOrPop ==
    \/ frames' = frames
    \/ Len(frames') = Len(frames) + 1 /\ Tail(frames') = frames
    \/ Len(frames') = Len(frames) + 2 /\ Tail(Tail(frames')) = frames
    \/ frames # <<>> /\ frames' = Tail(frames)

\* C23: frame pushes and pops are balanced on success: the frame chain changes only
\* at its head, and while no failure is under way it holds the base frame and one
\* frame per open block, if body or function call, so an evaluation that returns a
\* value leaves the current frame (depth, closure id and parent chain) as it found
\* it; each pushed frame's depth is its parent's depth + 1; and when evaluate returns
\* a value the current frame is the base frame at depth 0 with closure 0.
FramesBalancedOnSuccess ==
    /\ [][pc = "evaluate" => PushOrPop]_vars
    /\ [](pc = "evaluate" /\ NoFailure => Len(frames) = 1 + OpenEvaluations(kont))
    /\ [](pc \in {"evaluate", "done"} /\ frames # <<>> =>
            /\ frames[Len(frames)] = BaseFrame
            /\ \A i \in 1..(Len(frames) - 1) : frames[i].index = frames[i + 1].index + 1)
    /\ [][BlockEnd \/ (CallReturn /\ ctl.res.ok) => frames' = Tail(frames)]_vars
    /\ [](pc = "done" /\ result.stage = "interp" /\ result.res.ok => frames = <<BaseFrame>>)

\* a function has been called and has returned a value, and the evaluation ended on
\* the base frame
CallReturnedToBaseFrame ==
    /\ pc = "done"
    /\ result.stage = "interp"
    /\ result.res.ok
    /\ functions # <<>>
    /\ output # <<>>
    /\ \E i \in DOMAIN closures : closures[i].creator = "FunctionCall"
    /\ frames = <<BaseFrame>>

\* the values the evaluation holds: bound in a closure, being returned, or kept by a
\* pending operator, argument list or call
BoundValues ==
    UNION {{closures[i].variables[n] : n \in DOMAIN closures[i].variables} :
             i \in DOMAIN closures}

ReturnedValues == IF pc = "evaluate" /\ ctl.mode = "ret" THEN {ctl.res.value} ELSE {}

PendingValues ==
    UNION {CASE kont[i].k = "rhs" -> {kont[i].lhs}
             [] kont[i].k = "arguments" -> {kont[i].args[j] : j \in DOMAIN kont[i].args}
             [] kont[i].k = "call" -> {kont[i].callee}
             [] OTHER -> {} : i \in DOMAIN kont}

HeldValues == BoundValues \cup ReturnedValues \cup PendingValues

ClosureIds == 0..(Len(closures) - 1)

\* the step keeps every closure of the table in its place, with its creator, its
\* parent and the names it binds
ClosuresKept ==
    /\ Len(closures') >= Len(closures)
    /\ \A i \in DOMAIN closures :
          /\ closures'[i].creator = closures[i].creator
          /\ closures'[i].parent_id = closures[i].parent_id
          /\ DOMAIN closures[i].variables \subseteq DOMAIN closures'[i].variables

\* C24: the closure table only grows: no closure is ever removed or replaced; every
\* closure other than the base closure 0 has a parent id strictly smaller than its
\* own id, so parent chains are acyclic and end at closure 0; and every closure id
\* held by a frame or by a Function value, and every function index held by a
\* Function value, refers to an existing table entry.
ClosureTableOnlyGrows ==
    /\ [][pc = "evaluate" => ClosuresKept]_vars
    /\ [](pc \in {"evaluate", "done"} /\ closures # <<>> =>
            /\ closures[1].parent_id = NoParent
            /\ \A id \in ClosureIds \ {0} :
                  /\ get_closure_by_id(closures, id).parent_id \in ClosureIds
                  /\ get_closure_by_id(closures, id).parent_id < id
            /\ \A i \in DOMAIN frames : frames[i].closure_id \in ClosureIds
            /\ \A v \in HeldValues :
                  v.t = "InterpFunction" =>
                      /\ v.closure_id \in ClosureIds
                      /\ v.id \in 0..(Len(functions) - 1))

\* a Function value is bound in a closure and a closure below the base has a parent
\* other than the base
FunctionHeldInGrownTable ==
    /\ pc = "evaluate"
    /\ \E v \in BoundValues : v.t = "InterpFunction"
    /\ \E v \in PendingValues : v.t = "InterpFunction"
    /\ \E id \in ClosureIds : id > 0 /\ get_closure_by_id(closures, id).parent_id > 0

\* evaluate has returned a value or an InterpError
EvaluateReturned ==
    /\ pc = "done"
    /\ result.stage = "interp"
    /\ ~result.res.panic

ParseConsumesEveryToken ==
    Parsed =>
        /\ ast.ok => ast.p = Len(tokens.tokens)
        /\ src = StrayCloseBlockScript =>
              /\ ~ast.ok
              /\ result.stage = "parse"

\* C27: evaluating a call named while is a no-op once its arguments have been
\* evaluated: the attached body is never evaluated, no variable, closure or frame
\* changes, and the call completes without an InterpError; while(1) { print(1); };
\* prints nothing and succeeds.
WhileCallIsNoOp ==
    /\ [][CallWhile =>
            /\ ctl'.mode = "ret"
            /\ ctl'.res.ok
            /\ kont' = CallKont
            /\ closures' = closures
            /\ frames' = frames
            /\ output' = output]_vars
    /\ [](src = WhileScript /\ pc = "done" => result.res.ok /\ output = <<>>)

====
